---- MODULE Spec2Model ----
(***************************************************************************)
(* Benchmark data correlation engine of the reverse-proxy comparison       *)
(* repository: the run catalog loader (data-analysis/data_loader.py), the  *)
(* resource stats aggregator and the k6 time-series correlator.            *)
(*                                                                         *)
(* Timestamps are whole epoch seconds, as run.py writes them               *)
(* (int(time.time())).  A missing value (None / NaN) is the number NaN     *)
(* below; every real measurement of the model is a natural number.         *)
(***************************************************************************)
EXTENDS Integers, Sequences, FiniteSets, TLC

VARIABLES
    fs,          \* the file system under config.ROOT_DATA_DIR
    catalog,     \* the rows handed to pd.DataFrame by load_summary_from_files
    origin,      \* history: the subdirectory each catalog row was built from
    lpc,         \* position of analyse.main around load_summary_from_files
    summary_df,  \* the catalog handed to the two enrichment passes
    dstore,      \* the resource-metrics store (InfluxDB database dockerstats)
    dfaults,     \* the rows whose resource queries raise
    enriched,    \* the DataFrame add_docker_stats_from_influxdb returns
    apc,         \* position of analyse.main around add_docker_stats_from_influxdb
    dclient,     \* the DataFrameClient of the resource pass: "none", "open" or "closed"
    win_stats_df,    \* the frame handed to _calculate_detailed_docker_stats
    win_start_dt,    \* its win_start_dt argument
    win_end_dt,      \* its win_end_dt argument
    win_periods,     \* the win_periods dict it builds, as row positions of win_stats_df
    win_detailed_stats, \* the dict it returns
    wpc,         \* position of the caller around _calculate_detailed_docker_stats
    kstore,      \* the k6 store (InfluxDB database k6)
    kfaults,     \* the (row, measurement) pairs whose k6 query raises
    k6_timeseries_df, \* the DataFrame load_k6_timeseries_from_influxdb returns
    tpc,         \* position of analyse.main around load_k6_timeseries_from_influxdb
    kclient,     \* the DataFrameClient of the k6 pass: "none", "open" or "closed"
    order,       \* history: the enrichment passes in the order they ran
    stmt_df,     \* the catalog handed to run_analysis
    comparative_statements,  \* what generate_comparative_statements returned
    cross_proxy_statements,  \* what generate_cross_proxy_statements returned
    spc,         \* position of analyse.main around run_analysis
    returned,    \* history: what each call of the two generators returned
    master_token_txt,  \* the file master_token.txt of the target server
    MASTER_TOKEN,      \* the global of server.py
    TOKEN_LOCK,        \* the thread that holds the lock, or "free"
    main_pc,           \* position of server()
    reread_pc,         \* position of reread_token_periodically
    new_token,         \* its local
    handler_pc,        \* position of the request handler in do_GET
    received_token,    \* the X-Proxy-Token header of the request in hand
    is_valid,          \* the local of handle_auth
    requests,          \* history: each GET with its header, the token compared, the status sent
    writer_pc,         \* position of generate_new_token
    writes             \* history: the number of rewrites of the file so far

loaderVars == <<fs, catalog, origin, lpc>>
aggVars == <<summary_df, dstore, dfaults, enriched, apc, dclient>>
winVars == <<win_stats_df, win_start_dt, win_end_dt, win_periods, win_detailed_stats, wpc>>
tsVars == <<kstore, kfaults, k6_timeseries_df, tpc, kclient>>
stmtVars == <<stmt_df, comparative_statements, cross_proxy_statements, spc, returned>>
tokenVars == <<master_token_txt, MASTER_TOKEN, TOKEN_LOCK, main_pc, reread_pc, new_token,
               handler_pc, received_token, is_valid, requests, writer_pc, writes>>
vars == <<loaderVars, aggVars, winVars, tsVars, order, stmtVars, tokenVars>>

NaN == 0 - 1

(***************************************************************************)
(* Bounds of the model.                                                    *)
(***************************************************************************)
MaxEntries == 2      \* entries of the root data directory

(***************************************************************************)
(* config.py                                                               *)
(***************************************************************************)
EXPECTED_TEST_DURATION_S == 300
TEST_DURATION_TOLERANCE_S == 45

ProxyNames == {"go-proxy", "java-proxy", "node-proxy"}

TestTypeTokens ==
    { <<"soak">>, <<"image">>, <<"injection">>, <<"smoke">>,
      <<"soak", "for", "go", "target">>, <<"soak", "for", "python", "target">> }

\* the tokens of the model's alphabet that \d+k matches
UsersLabels == {"1k", "5k", "10k"}

Abs(x) == IF x < 0 THEN 0 - x ELSE x

RECURSIVE JoinDash(_)
JoinDash(toks) ==
    IF Len(toks) = 1 THEN toks[1]
    ELSE toks[1] \o "-" \o JoinDash(Tail(toks))

(***************************************************************************)
(* A file name is <stem>-<proxy>-<test>.json, its test part a sequence of  *)
(* dash-separated tokens.  The three patterns of config.py, as predicates  *)
(* on that structure (re.match anchors at the start only, so a test part   *)
(* with trailing tokens still matches).                                    *)
(***************************************************************************)
K6_OUT_FILENAME_PATTERN(f) ==
    f.stem = "k6-out" /\ f.proxy \in ProxyNames /\ Len(f.test) >= 1

SUMMARY_FILENAME_PATTERN(f) ==
    f.stem = "k6-summary" /\ f.proxy \in ProxyNames /\ Len(f.test) >= 1

TestNameMatches(test) ==
    { tt \in TestTypeTokens :
        /\ Len(test) > Len(tt)
        /\ SubSeq(test, 1, Len(tt)) = tt
        /\ test[Len(tt) + 1] \in UsersLabels }

\* TEST_NAME_PATTERN.match(test_name) is not None
TEST_NAME_PATTERN(test) == TestNameMatches(test) # {}

\* test_match.groupdict()
TestNameGroups(test) ==
    LET tt == CHOOSE t \in TestNameMatches(test) : TRUE
    IN  [test_type |-> JoinDash(tt), users |-> test[Len(tt) + 1]]

\* proxy_name_raw.replace('-proxy', '').capitalize()
ProxyDisplayName(raw) ==
    CASE raw = "go-proxy" -> "Go"
      [] raw = "java-proxy" -> "Java"
      [] raw = "node-proxy" -> "Node"

\* _get_metric: metrics.get(metric_name, {}).get(sub_key)
GetMetric(metrics, metric_name, sub_key) ==
    IF metric_name \in DOMAIN metrics /\ sub_key \in DOMAIN metrics[metric_name]
    THEN metrics[metric_name][sub_key]
    ELSE NaN

\* the first position of the directory listing among the matching ones, or 0
FirstIndex(matching) ==
    IF matching = {} THEN 0
    ELSE CHOOSE i \in matching : \A j \in matching : i <= j

\* the tolerance test with the boundary excluded
DurationOutOfTolerance_Boundary(duration) ==
    Abs(duration - EXPECTED_TEST_DURATION_S) >= TEST_DURATION_TOLERANCE_S

DurationOutOfTolerance(duration) ==
    Abs(duration - EXPECTED_TEST_DURATION_S) > TEST_DURATION_TOLERANCE_S

NoRunInfo == [none |-> TRUE]

\* the run identifier rebuilt from the file name instead of read from the document
ParseK6OutFile_NameAsId(files) ==
    LET i == FirstIndex({ k \in 1..Len(files) : K6_OUT_FILENAME_PATTERN(files[k]) })
    IN  IF i = 0 THEN NoRunInfo
        ELSE LET out_data == files[i].doc
                 duration == out_data.end_time - out_data.start_time
             IN  IF DurationOutOfTolerance(duration) THEN NoRunInfo
                 ELSE [test_id |-> files[i].proxy \o "-" \o JoinDash(files[i].test),
                       start_time_ts |-> out_data.start_time,
                       start_time |-> out_data.start_time,
                       end_time |-> out_data.end_time]

\* _parse_k6_out_file: the first matching file decides
ParseK6OutFile(files) ==
    LET i == FirstIndex({ k \in 1..Len(files) : K6_OUT_FILENAME_PATTERN(files[k]) })
    IN  IF i = 0 THEN NoRunInfo
        ELSE LET out_data == files[i].doc
                 duration == out_data.end_time - out_data.start_time
             IN  IF DurationOutOfTolerance(duration) THEN NoRunInfo
                 ELSE [test_id |-> out_data.test_id,
                       start_time_ts |-> out_data.start_time,
                       start_time |-> out_data.start_time,
                       end_time |-> out_data.end_time]

\* the direct columns of _parse_summary_file (the two byte-rate columns,
\* data_sent_mb_s and data_recv_mb_s, are floats no statement reads and are
\* left out)
DirectColumns(metrics) ==
    [total_reqs |-> GetMetric(metrics, "http_reqs", "count"),
     rps |-> GetMetric(metrics, "http_reqs", "rate"),
     fail_rate |-> GetMetric(metrics, "http_req_failed", "value"),
     iterations_count |-> GetMetric(metrics, "iterations", "count"),
     iterations_rate |-> GetMetric(metrics, "iterations", "rate"),
     vus_min |-> GetMetric(metrics, "vus", "min"),
     vus_max |-> GetMetric(metrics, "vus", "max")]

MetricBases == {"http_req_duration", "http_req_blocked", "http_req_tls_handshaking"}
SubKeys == {"avg", "min", "med", "max", "p(90)", "p(95)"}

\* sub_key.replace('(', '').replace(')', '')
CleanKey(sub_key) ==
    CASE sub_key = "p(90)" -> "p90"
      [] sub_key = "p(95)" -> "p95"
      [] OTHER -> sub_key

\* metric_base.replace('http_req_', '')
ShortBase(metric_base) ==
    CASE metric_base = "http_req_duration" -> "duration"
      [] metric_base = "http_req_blocked" -> "blocked"
      [] metric_base = "http_req_tls_handshaking" -> "tls_handshaking"

ColName(metric_base, sub_key) == ShortBase(metric_base) \o "_" \o CleanKey(sub_key)

\* the nested loop over metric_base and sub_key
DistributionColumns(metrics) ==
    LET keys == MetricBases \X SubKeys
    IN  [c \in { ColName(k[1], k[2]) : k \in keys } |->
            LET k == CHOOSE k \in keys : ColName(k[1], k[2]) = c
            IN  GetMetric(metrics, k[1], k[2])]

SummaryColumns(metrics) == DirectColumns(metrics) @@ DistributionColumns(metrics)

\* _parse_summary_file: the first matching file decides; a test name that
\* fails TEST_NAME_PATTERN only skips the proxy/test_type/users update
ParseSummaryFile(files, run_info) ==
    LET i == FirstIndex({ k \in 1..Len(files) : SUMMARY_FILENAME_PATTERN(files[k]) })
    IN  IF i = 0 THEN NoRunInfo
        ELSE LET f == files[i]
                 named == IF TEST_NAME_PATTERN(f.test)
                          THEN [proxy |-> ProxyDisplayName(f.proxy)]
                                   @@ TestNameGroups(f.test) @@ run_info
                          ELSE run_info
             IN  SummaryColumns(f.doc.metrics) @@ named

(***************************************************************************)
(* Directory names are digit strings (run.py names a run directory by its  *)
(* epoch second); sorted() orders the paths by name, character by          *)
(* character.                                                              *)
(***************************************************************************)
RECURSIVE LexLess(_, _)
LexLess(a, b) ==
    IF Len(a) = 0 THEN Len(b) > 0
    ELSE IF Len(b) = 0 THEN FALSE
    ELSE IF a[1] # b[1] THEN a[1] < b[1]
    ELSE LexLess(Tail(a), Tail(b))

\* the listing ordered by numeric value of the name (shorter names first)
RECURSIVE SortedPaths_Numeric(_)
SortedPaths_Numeric(names) ==
    IF names = {} THEN <<>>
    ELSE LET m == CHOOSE n \in names : \A o \in names \ {n} :
                      Len(n) < Len(o) \/ (Len(n) = Len(o) /\ LexLess(n, o))
         IN  <<m>> \o SortedPaths_Numeric(names \ {m})

RECURSIVE SortedPaths(_)
SortedPaths(names) ==
    IF names = {} THEN <<>>
    ELSE LET m == CHOOSE n \in names : \A o \in names \ {n} : LexLess(n, o)
         IN  <<m>> \o SortedPaths(names \ {m})

\* the loop of load_summary_from_files over the sorted listing: the
\* (directory, row) pairs appended to all_runs_data
RECURSIVE ScanRuns(_, _)
ScanRuns(entries, listing) ==
    IF Len(listing) = 0 THEN <<>>
    ELSE LET timestamp_dir == listing[1]
             e == entries[timestamp_dir]
             rest == ScanRuns(entries, Tail(listing))
         IN  IF ~e.is_dir THEN rest
             ELSE LET run_info == ParseK6OutFile(e.files)
                  IN  IF run_info = NoRunInfo THEN rest
                      ELSE LET full_run_data == ParseSummaryFile(e.files, run_info)
                           IN  IF full_run_data = NoRunInfo THEN rest
                               ELSE <<[dir |-> timestamp_dir, row |-> full_run_data]>> \o rest

\* the existence test left out
RootMissing_Unchecked(f) == FALSE

\* not config.ROOT_DATA_DIR.exists()
RootMissing(f) == ~f.exists

\* load_summary_from_files; an empty DataFrame is the empty row sequence.
\* Path.iterdir() of a directory that does not exist raises.
LoadedRuns(f) ==
    IF RootMissing(f) THEN [raised |-> FALSE, runs |-> <<>>]
    ELSE IF ~f.exists THEN [raised |-> TRUE, runs |-> <<>>]
    ELSE [raised |-> FALSE, runs |-> ScanRuns(f.entries, SortedPaths(DOMAIN f.entries))]

(***************************************************************************)
(* The artifacts a run directory can hold.                                 *)
(***************************************************************************)
DirNames == { <<9>>, <<1, 0>>, <<1, 0, 5>> }

TestIds == {"go-proxy-smoke-1k-10", "go-proxy-smoke-1k-105"}
StartTimes == {1000}
Durations == {254, 255, 345, 346}

MetaDocs ==
    { [test_id |-> t, start_time |-> s, end_time |-> s + d] :
        t \in TestIds, s \in StartTimes, d \in Durations }

MetaFiles ==
    { [stem |-> "k6-out", proxy |-> "go-proxy", test |-> <<"smoke", "1k">>, doc |-> m] :
        m \in MetaDocs }

SummaryDoc ==
    [metrics |-> [http_reqs |-> [count |-> 30000, rate |-> 100],
                  http_req_duration |-> ("avg" :> 40) @@ ("p(95)" :> 120)]]

SummaryFiles ==
    { [stem |-> "k6-summary", proxy |-> p, test |-> t, doc |-> SummaryDoc] :
        p \in {"go-proxy", "nginx-proxy"},
        t \in { <<"smoke", "1k">>, <<"warmup">> } } \
    { [stem |-> "k6-summary", proxy |-> "nginx-proxy", test |-> <<"warmup">>, doc |-> SummaryDoc] }

ScriptFile == [stem |-> "script", proxy |-> "none", test |-> <<"smoke", "1k">>, doc |-> [none |-> TRUE]]

FileListings ==
    { <<ScriptFile>> }
    \cup { <<ScriptFile, m>> : m \in MetaFiles }
    \cup { <<ScriptFile, s>> : s \in SummaryFiles }
    \cup { <<ScriptFile, s, m>> : s \in SummaryFiles, m \in MetaFiles }

Entries ==
    { [is_dir |-> FALSE, files |-> <<>>] }
    \cup { [is_dir |-> TRUE, files |-> l] : l \in FileListings }

FileSystems ==
    { [exists |-> FALSE, entries |-> <<>>] }
    \cup { [exists |-> TRUE, entries |-> e] :
            e \in UNION { [D -> Entries] :
                          D \in { X \in SUBSET DirNames : Cardinality(X) <= MaxEntries } } }

\* the enrichment passes before analyse.main reaches them
AggIdle ==
    /\ summary_df = <<>>
    /\ dstore = [up |-> FALSE, cpu |-> {}, mem |-> {}]
    /\ dfaults = {}
    /\ enriched = <<>>
    /\ apc = "idle"
    /\ dclient = "none"

\* _calculate_detailed_docker_stats not called
WinIdle ==
    /\ win_stats_df = <<>>
    /\ win_start_dt = 0
    /\ win_end_dt = 0
    /\ win_periods = <<>>
    /\ win_detailed_stats = <<>>
    /\ wpc = "idle"

\* the time-series correlator before analyse.main reaches it
TsIdle ==
    /\ kstore = [up |-> FALSE, points |-> {}]
    /\ kfaults = {}
    /\ k6_timeseries_df = <<>>
    /\ tpc = "idle"
    /\ kclient = "none"

\* run_analysis not called
\* the target server not started
TokenIdle ==
    /\ master_token_txt = [exists |-> FALSE, content |-> ""]
    /\ MASTER_TOKEN = ""
    /\ TOKEN_LOCK = "free"
    /\ main_pc = "idle"
    /\ reread_pc = "idle"
    /\ new_token = ""
    /\ handler_pc = "idle"
    /\ received_token = [present |-> FALSE, value |-> ""]
    /\ is_valid = FALSE
    /\ requests = <<>>
    /\ writer_pc = "idle"
    /\ writes = 0

StmtIdle ==
    /\ stmt_df = <<>>
    /\ comparative_statements = <<>>
    /\ cross_proxy_statements = <<>>
    /\ spc = "idle"
    /\ returned = <<>>

InitLoad ==
    /\ StmtIdle
    /\ TokenIdle
    /\ AggIdle
    /\ WinIdle
    /\ TsIdle
    /\ order = <<>>
    /\ fs \in FileSystems
    /\ catalog = <<>>
    /\ origin = <<>>
    /\ lpc = "start"

\* analyse.main calling load_summary_from_files
LoadSummaryFromFiles ==
    /\ lpc = "start"
    /\ LET res == LoadedRuns(fs)
           runs == res.runs
       IN  /\ catalog' = [i \in 1..Len(runs) |-> runs[i].row]
           /\ origin' = [i \in 1..Len(runs) |-> runs[i].dir]
           /\ lpc' = IF res.raised THEN "raised" ELSE "loaded"
    /\ UNCHANGED fs
    /\ UNCHANGED <<aggVars, winVars, tsVars, order, stmtVars, tokenVars>>

NextLoad == LoadSummaryFromFiles

SpecLoad == InitLoad /\ [][NextLoad]_vars

(***************************************************************************)
(* Properties of the catalog builder.                                      *)
(***************************************************************************)
RunDirs == { d \in DOMAIN fs.entries : fs.entries[d].is_dir }

MetaFilesOf(d) ==
    { i \in 1..Len(fs.entries[d].files) : K6_OUT_FILENAME_PATTERN(fs.entries[d].files[i]) }

SummaryFilesOf(d) ==
    { i \in 1..Len(fs.entries[d].files) : SUMMARY_FILENAME_PATTERN(fs.entries[d].files[i]) }

MetaDocOf(d) == fs.entries[d].files[CHOOSE i \in MetaFilesOf(d) : TRUE].doc
SummaryFileOf(d) == fs.entries[d].files[CHOOSE i \in SummaryFilesOf(d) : TRUE]

MetaDuration(d) == MetaDocOf(d).end_time - MetaDocOf(d).start_time

RowsFrom(d) == { i \in DOMAIN origin : origin[i] = d }

\* the subdirectories holding a metadata artifact within tolerance and a summary artifact
ValidDirs ==
    { d \in RunDirs :
        /\ MetaFilesOf(d) # {} /\ SummaryFilesOf(d) # {}
        /\ MetaDuration(d) \in 255..345 }

\* C1: a run directory holding a metadata and a summary artifact yields
\* exactly one RunRecord when |duration - 300| <= 45 (255 s and 345 s
\* included) and none when |duration - 300| > 45.
C1_DurationGate ==
    lpc = "loaded" =>
        \A d \in RunDirs :
            (MetaFilesOf(d) # {} /\ SummaryFilesOf(d) # {}) =>
                Cardinality(RowsFrom(d)) =
                    (IF MetaDuration(d) >= 255 /\ MetaDuration(d) <= 345 THEN 1 ELSE 0)

C1_Witness ==
    /\ lpc = "loaded"
    /\ \E d \in RunDirs :
          /\ MetaFilesOf(d) # {} /\ SummaryFilesOf(d) # {}
          /\ MetaDuration(d) = 345 /\ Cardinality(RowsFrom(d)) = 1
    /\ \E d \in RunDirs :
          /\ MetaFilesOf(d) # {} /\ SummaryFilesOf(d) # {}
          /\ MetaDuration(d) = 346 /\ RowsFrom(d) = {}

\* C2: the catalog has one row per subdirectory holding both valid
\* artifacts, the rows in lexicographic order of subdirectory name; files
\* of the root and invalid subdirectories contribute no row.
C2_CountAndOrder ==
    lpc = "loaded" =>
        /\ Len(catalog) = Cardinality(ValidDirs)
        /\ { origin[i] : i \in DOMAIN origin } = ValidDirs
        /\ \A i, j \in DOMAIN origin : i < j => LexLess(origin[i], origin[j])

C2_Witness ==
    /\ lpc = "loaded"
    /\ Len(catalog) = 2
    /\ origin = << <<1, 0, 5>>, <<9>> >>

\* C3 (as claimed): a run whose summary file name has a test-name part
\* that fails the <test-type>-<load-label> pattern never enters the
\* catalog, so every row has proxy, test_type and users defined.
C3_EveryRowNamed ==
    lpc = "loaded" =>
        \A i \in DOMAIN catalog :
            /\ TEST_NAME_PATTERN(SummaryFileOf(origin[i]).test)
            /\ {"proxy", "test_type", "users"} \subseteq DOMAIN catalog[i]

\* C4 (as claimed): no two rows of the catalog carry the same test_id,
\* whatever test_id values the metadata artifacts contain.
C4_TestIdUnique ==
    \A i, j \in DOMAIN catalog : i # j => catalog[i].test_id # catalog[j].test_id

\* C4 (amended): when the metadata artifacts of the subdirectories that
\* enter the catalog carry pairwise distinct test_id values, no two rows
\* of the catalog carry the same test_id.
C4_TestIdUniqueGivenDistinctRuns ==
    lpc = "loaded" =>
        ((\A d, e \in ValidDirs : d # e => MetaDocOf(d).test_id # MetaDocOf(e).test_id)
            => \A i, j \in DOMAIN catalog : i # j => catalog[i].test_id # catalog[j].test_id)

C4_Witness ==
    /\ lpc = "loaded"
    /\ Len(catalog) = 2
    /\ catalog[1].test_id # catalog[2].test_id

\* C5: with the root data directory missing the loader returns an empty
\* catalog and raises nothing; it returns the same empty catalog when the
\* directory exists and no subdirectory yields a valid run.
C5_EmptyCatalog ==
    /\ lpc # "raised"
    /\ (lpc = "loaded" /\ (~fs.exists \/ ValidDirs = {})) => catalog = <<>>

C5_Witness ==
    /\ lpc = "loaded"
    /\ ~fs.exists
    /\ catalog = <<>>

(***************************************************************************)
(* Resource Stats Aggregator: add_docker_stats_from_influxdb.              *)
(*                                                                         *)
(* The store holds raw points; a point is [tags, t, v].  A series is the   *)
(* set of points with the same tags.  CPU values are whole percents, and   *)
(* memory values whole MiB written in bytes.                               *)
(***************************************************************************)
DOCKER_CONTAINER_TAG_KEY == "io.telegraf.group.name"

RELEVANT_CONTAINERS == {"go-proxy", "java-proxy", "node-proxy", "target-server", "influxdb"}

\* pd.Timedelta(seconds=60)
QueryBuffer == 60

MiB == 1024 * 1024

\* the container names of the model in the order pandas sorts them
ContainerOrder == <<"go-proxy", "influxdb", "java-proxy", "node-proxy", "target-server", "telegraf">>

NameRank(name) == CHOOSE k \in 1..Len(ContainerOrder) : ContainerOrder[k] = name

RECURSIVE SortedNames(_)
SortedNames(names) ==
    IF names = {} THEN <<>>
    ELSE LET m == CHOOSE n \in names : \A o \in names : NameRank(n) <= NameRank(o)
         IN  <<m>> \o SortedNames(names \ {m})

\* the series a query returns: SELECT mean(..) WHERE time >= lo AND time <= hi
\* GROUP BY time(1s), tag: one series per tag set with a point in the range
SeriesInRange(points, lo, hi) ==
    { p.tags : p \in { q \in points : q.t >= lo /\ q.t <= hi } }

\* fill(previous): the bucket of second t holds the value sampled in it, or
\* the value of the nearest earlier bucket of the range, or null
BucketValue(points, tags, lo, t) ==
    LET prior == { p \in points : p.tags = tags /\ p.t >= lo /\ p.t <= t }
    IN  IF prior = {} THEN NaN
        ELSE (CHOOSE p \in prior : \A q \in prior : q.t <= p.t).v

\* if tags and tag_key in dict(tags)
Tagged(tags) == DOCKER_CONTAINER_TAG_KEY \in DOMAIN tags

\* the names of cpu_dfs / mem_dfs
TaggedNames(series) == { tags[DOCKER_CONTAINER_TAG_KEY] : tags \in { g \in series : Tagged(g) } }

TagsOf(name) == (DOCKER_CONTAINER_TAG_KEY :> name)

\* forward fill of the positions lo..hi of a column, carry being the last
\* value seen before lo (the left half is bound once, then carried right)
RECURSIVE FFillRange(_, _, _, _)
FFillRange(col, lo, hi, carry) ==
    IF lo = hi THEN << IF col[lo] # NaN THEN col[lo] ELSE carry >>
    ELSE LET mid == (lo + hi) \div 2
         IN  CHOOSE filled \in
                 { left \o FFillRange(col, mid + 1, hi, left[Len(left)]) :
                     left \in { FFillRange(col, lo, mid, carry) } } : TRUE

\* DataFrame.ffill() on one column: down the rows of the whole frame
FFill(col) ==
    CHOOSE filled \in
        { IF Len(c) = 0 THEN c ELSE FFillRange(c, 1, Len(c), NaN) : c \in {col} } : TRUE

\* backward fill of the positions lo..hi, carry being the first value after hi
RECURSIVE BFillRange(_, _, _, _)
BFillRange(col, lo, hi, carry) ==
    IF lo = hi THEN << IF col[lo] # NaN THEN col[lo] ELSE carry >>
    ELSE LET mid == (lo + hi) \div 2
         IN  CHOOSE filled \in
                 { BFillRange(col, lo, mid, right[1]) \o right :
                     right \in { BFillRange(col, mid + 1, hi, carry) } } : TRUE

\* the backward fill left out
BFill_Skipped(col) == col

\* DataFrame.bfill() on one column
BFill(col) ==
    CHOOSE filled \in
        { IF Len(c) = 0 THEN c ELSE BFillRange(c, 1, Len(c), NaN) : c \in {col} } : TRUE

\* pd.merge(combined_cpu, combined_mem, on=['time', 'name'], how='outer')
\* .ffill().bfill(), then mem_usage_mib, relative_time and the allow-list.
\* Every returned series has one bucket per second of lo..hi, so the outer
\* join has one row per (second, name), sorted by time and then by name.
MergedFrame(st, lo, hi) ==
    LET cpu_names == TaggedNames(SeriesInRange(st.cpu, lo, hi))
        mem_names == TaggedNames(SeriesInRange(st.mem, lo, hi))
        names == SortedNames(cpu_names \cup mem_names)
        n == Len(names)
        size == (hi - lo + 1) * n
        time_of(k) == lo + ((k - 1) \div n)
        name_of(k) == names[((k - 1) % n) + 1]
        cpu_raw == [k \in 1..size |->
                      IF name_of(k) \in cpu_names
                      THEN BucketValue(st.cpu, TagsOf(name_of(k)), lo, time_of(k))
                      ELSE NaN]
        mem_raw == [k \in 1..size |->
                      IF name_of(k) \in mem_names
                      THEN BucketValue(st.mem, TagsOf(name_of(k)), lo, time_of(k))
                      ELSE NaN]
        cpu_filled == BFill(FFill(cpu_raw))
        mem_filled == BFill(FFill(mem_raw))
    IN  [k \in 1..size |->
            [time |-> time_of(k), name |-> name_of(k),
             cpu_perc_float |-> cpu_filled[k], mem_bytes |-> mem_filled[k]]]

\* stats_df['mem_bytes'] / (1024 * 1024)
MemUsageMib(mem_bytes) == IF mem_bytes = NaN THEN NaN ELSE mem_bytes \div MiB

\* the rows kept by stats_df['name'].isin(config.RELEVANT_CONTAINERS)
RelevantRows(frame) == { k \in 1..Len(frame) : frame[k].name \in RELEVANT_CONTAINERS }

\* the aligned series of one run: stats_df after line 159
StatsFrame(st, lo, hi) ==
    LET merged == MergedFrame(st, lo, hi)
        t_min == lo
        full == [k \in 1..Len(merged) |->
                    [time |-> merged[k].time, name |-> merged[k].name,
                     cpu_perc_float |-> merged[k].cpu_perc_float,
                     mem_usage_mib |-> MemUsageMib(merged[k].mem_bytes),
                     relative_time |-> merged[k].time - t_min]]
        Relevant(r) == r.name \in RELEVANT_CONTAINERS
    IN  SelectSeq(full, Relevant)

(***************************************************************************)
(* _calculate_detailed_docker_stats.  A mean or a quantile is an exact     *)
(* fraction [num, den] in lowest terms; the mean of no value is NaNFrac.   *)
(***************************************************************************)
RECURSIVE GCD(_, _)
GCD(a, b) == IF b = 0 THEN a ELSE GCD(b, a % b)

NaNFrac == [num |-> 0, den |-> 0]

Frac(num, den) ==
    IF den = 0 THEN NaNFrac
    ELSE LET g == GCD(num, den) IN
         IF g = 0 THEN [num |-> 0, den |-> 1] ELSE [num |-> num \div g, den |-> den \div g]

\* stats_df['time'] < start_dt
InBefore(t, start_dt, end_dt) == t < start_dt

\* the window without its two boundary seconds
InDuring_Open(t, start_dt, end_dt) == t > start_dt /\ t < end_dt

\* (stats_df['time'] >= start_dt) & (stats_df['time'] <= end_dt)
InDuring(t, start_dt, end_dt) == t >= start_dt /\ t <= end_dt

\* stats_df['time'] > end_dt
InAfter(t, start_dt, end_dt) == t > end_dt

Periods == {"before", "during", "after"}

InPeriod(period, t, start_dt, end_dt) ==
    CASE period = "before" -> InBefore(t, start_dt, end_dt)
      [] period = "during" -> InDuring(t, start_dt, end_dt)
      [] period = "after" -> InAfter(t, start_dt, end_dt)

\* the periods dict (lines 98-102), each frame as row positions of stats_df
PeriodFrames(stats_df, start_dt, end_dt) ==
    [period \in Periods |->
        { k \in 1..Len(stats_df) : InPeriod(period, stats_df[k].time, start_dt, end_dt) }]

\* period_df[period_df['name'] == container_name], as row positions
ContainerRows(frame, container_name, period, start_dt, end_dt) ==
    { k \in 1..Len(frame) :
        /\ frame[k].name = container_name
        /\ InPeriod(period, frame[k].time, start_dt, end_dt) }

\* the non-null values of a column over a set of rows, each with its count
ValueCounts(frame, rows, col) ==
    [v \in { frame[k][col] : k \in rows } \ {NaN} |->
        Cardinality({ k \in rows : frame[k][col] = v })]

RECURSIVE CountSum(_, _)
CountSum(counts, values) ==
    IF values = {} THEN 0
    ELSE LET v == CHOOSE x \in values : TRUE
         IN  counts[v] + CountSum(counts, values \ {v})

RECURSIVE WeightedSum(_, _)
WeightedSum(counts, values) ==
    IF values = {} THEN 0
    ELSE LET v == CHOOSE x \in values : TRUE
         IN  v * counts[v] + WeightedSum(counts, values \ {v})

Size(counts) == CountSum(counts, DOMAIN counts)

\* Series.mean()
Mean(counts) == Frac(WeightedSum(counts, DOMAIN counts), Size(counts))

\* Series.min(), Series.max()
Min(counts) ==
    IF DOMAIN counts = {} THEN NaN
    ELSE CHOOSE v \in DOMAIN counts : \A w \in DOMAIN counts : v <= w

Max(counts) ==
    IF DOMAIN counts = {} THEN NaN
    ELSE CHOOSE v \in DOMAIN counts : \A w \in DOMAIN counts : v >= w

\* the k-th smallest value, counting from 1
KthSmallest(counts, k) ==
    LET below(v) == CountSum(counts, { w \in DOMAIN counts : w < v })
    IN  CHOOSE v \in DOMAIN counts : below(v) < k /\ k <= below(v) + counts[v]

\* Series.quantile(q_num / q_den), linear interpolation between order statistics
Quantile(counts, q_num, q_den) ==
    LET n == Size(counts)
    IN  IF n = 0 THEN NaNFrac
        ELSE LET pos == (n - 1) * q_num
                 lower == pos \div q_den
                 rest == pos % q_den
                 v_lo == KthSmallest(counts, lower + 1)
                 v_hi == IF rest = 0 THEN v_lo ELSE KthSmallest(counts, lower + 2)
             IN  Frac(q_den * v_lo + rest * (v_hi - v_lo), q_den)

Aggregate(agg_name, counts) ==
    CASE agg_name = "avg" -> Mean(counts)
      [] agg_name = "min" -> Min(counts)
      [] agg_name = "max" -> Max(counts)
      [] agg_name = "p90" -> Quantile(counts, 90, 100)
      [] agg_name = "p95" -> Quantile(counts, 95, 100)

MetricsToCalc == {"cpu", "mem"}
MetricColumn(metric_prefix) ==
    CASE metric_prefix = "cpu" -> "cpu_perc_float"
      [] metric_prefix = "mem" -> "mem_usage_mib"

Aggregations == {"avg", "min", "max", "p90", "p95"}

StatKey(container_name, metric_prefix, period_name, agg_name) ==
    container_name \o "_" \o metric_prefix \o "_" \o period_name \o "_" \o agg_name

\* the inner loops over metrics_to_calc and aggregations for one container
\* and period: the keys written for it
GroupStats(container_name, period_name, cpu_counts, mem_counts) ==
    LET cells == MetricsToCalc \X Aggregations
    IN  [key \in { StatKey(container_name, c[1], period_name, c[2]) : c \in cells } |->
            LET c == CHOOSE d \in cells : StatKey(container_name, d[1], period_name, d[2]) = key
            IN  Aggregate(c[2], IF c[1] = "cpu" THEN cpu_counts ELSE mem_counts)]

\* the loops over containers and periods; a container with no row in a
\* period writes no key for it
RECURSIVE DetailedStatsOver(_, _, _, _)
DetailedStatsOver(stats_df, start_dt, end_dt, groups) ==
    IF groups = {} THEN <<>>
    ELSE LET g == CHOOSE x \in groups : TRUE
             rest == DetailedStatsOver(stats_df, start_dt, end_dt, groups \ {g})
         IN  CHOOSE stats \in
                 { IF rows = {} THEN rest
                   ELSE CHOOSE written \in
                            { GroupStats(g[1], g[2], cpu_counts, mem_counts) @@ rest :
                                cpu_counts \in { ValueCounts(stats_df, rows, "cpu_perc_float") },
                                mem_counts \in { ValueCounts(stats_df, rows, "mem_usage_mib") } } : TRUE :
                     rows \in { ContainerRows(stats_df, g[1], g[2], start_dt, end_dt) } } : TRUE

\* _calculate_detailed_docker_stats
DetailedStats(stats_df, start_dt, end_dt) ==
    DetailedStatsOver(stats_df, start_dt, end_dt,
                      { stats_df[k].name : k \in 1..Len(stats_df) } \X Periods)

\* a failing row also given a column the k6 pass reads
EmptyStats_ResetsWindow == [docker_stats_df |-> <<>>, end_time |-> 0]

EmptyStats == [docker_stats_df |-> <<>>]

\* the proxy name taken as it stands
ProxyLower_AsIs(proxy) == proxy

\* row['proxy'].lower()
ProxyLower(proxy) ==
    CASE proxy = "Go" -> "go"
      [] proxy = "Java" -> "java"
      [] proxy = "Node" -> "node"

\* the try block of one row (lines 130-171): exc tells that it raised.
\* client.query raises when the request fails; row['proxy'].lower() raises
\* for a row that has no proxy.
RowOutcome(row, st, fault) ==
    LET start_dt == row.start_time
        end_dt == row.end_time
        query_start == start_dt - QueryBuffer
        query_end == end_dt + QueryBuffer
        cpu_result == SeriesInRange(st.cpu, query_start, query_end)
        mem_result == SeriesInRange(st.mem, query_start, query_end)
    IN  IF fault \/ ~st.up THEN [exc |-> TRUE, stats |-> EmptyStats]
        ELSE IF cpu_result = {} \/ mem_result = {} THEN [exc |-> FALSE, stats |-> EmptyStats]
        ELSE IF TaggedNames(cpu_result) = {} \/ TaggedNames(mem_result) = {}
             THEN [exc |-> FALSE, stats |-> EmptyStats]
        ELSE IF "proxy" \notin DOMAIN row THEN [exc |-> TRUE, stats |-> EmptyStats]
        ELSE CHOOSE outcome \in
                 { LET detailed_stats == DetailedStats(stats_df, start_dt, end_dt)
                       proxy_container == ProxyLower(row.proxy) \o "-proxy"
                       proxy_during == { k \in 1..Len(stats_df) :
                                           /\ InDuring(stats_df[k].time, start_dt, end_dt)
                                           /\ stats_df[k].name = proxy_container }
                   IN  [exc |-> FALSE,
                        stats |-> [docker_stats_df |-> stats_df,
                                   avg_cpu |-> Mean(ValueCounts(stats_df, proxy_during, "cpu_perc_float")),
                                   avg_mem_mib |-> Mean(ValueCounts(stats_df, proxy_during, "mem_usage_mib"))]
                                  @@ detailed_stats] :
                     stats_df \in { StatsFrame(st, query_start, query_end) } } : TRUE

\* the exception of a row let through
HandleRowError_Reraise(outcome) == outcome

\* the except clause of the row loop (lines 172-174)
HandleRowError(outcome) ==
    IF outcome.exc THEN [exc |-> FALSE, stats |-> EmptyStats] ELSE outcome

\* the failed ping ignored
Connected_Unchecked(st) == TRUE

\* client.ping() returns
Connected(st) == st.up

\* the rows whose query fails append no entry, so the join pairs the
\* entries of the surviving rows with the first rows of the catalog
AddDockerStats_SkipFailed(df, st, faults) ==
    IF Len(df) = 0 THEN [raised |-> FALSE, df |-> df]
    ELSE IF ~Connected(st) THEN [raised |-> FALSE, df |-> df]
    ELSE LET outcomes == [i \in 1..Len(df) |-> HandleRowError(RowOutcome(df[i], st, i \in faults))]
             stats_list == SelectSeq([i \in 1..Len(df) |-> outcomes[i].stats],
                                     LAMBDA stats : stats # EmptyStats)
         IN  [raised |-> FALSE,
              df |-> [i \in 1..Len(df) |->
                        IF i <= Len(stats_list) THEN stats_list[i] @@ df[i] ELSE df[i]]]

\* add_docker_stats_from_influxdb: the DataFrame returned, or raised.  A
\* column a row does not hold is NaN in that row of the joined DataFrame.
AddDockerStats(df, st, faults) ==
    IF Len(df) = 0 THEN [raised |-> FALSE, df |-> df]
    ELSE IF ~Connected(st) THEN [raised |-> FALSE, df |-> df]
    ELSE LET outcomes == [i \in 1..Len(df) |-> HandleRowError(RowOutcome(df[i], st, i \in faults))]
         IN  IF \E i \in 1..Len(df) : outcomes[i].exc
             THEN [raised |-> TRUE, df |-> <<>>]
             ELSE [raised |-> FALSE, df |-> [i \in 1..Len(df) |-> outcomes[i].stats @@ df[i]]]

\* the client of add_docker_stats_from_influxdb when the function returns:
\* DataFrameClient(...) and ping() open it (lines 121-122) and no line of
\* the function closes it
DockerClientAfter(df, st) ==
    IF Len(df) = 0 THEN "none"
    ELSE IF ~Connected(st) THEN "none"
    ELSE "open"

(***************************************************************************)
(* The catalogs and stores of the enrichment passes.  A catalog is what    *)
(* the loader builds from run directories of the minimum accepted          *)
(* duration; the second run starts after the query range of the first.     *)
(***************************************************************************)
MaxRuns == 2         \* rows of the catalog
MaxSamples == 2      \* samples written to the resource store

RunStart(d) ==
    CASE d = <<1, 0>> -> 1000
      [] d = <<1, 0, 5>> -> 2000
      [] d = <<9>> -> 1000

RunDir(d) ==
    LET proxy == CASE d = <<1, 0>> -> "go-proxy"
                   [] d = <<1, 0, 5>> -> "java-proxy"
                   [] d = <<9>> -> "node-proxy"
        test == IF d = <<9>> THEN <<"warmup">> ELSE <<"smoke", "1k">>
        meta == [test_id |-> proxy \o "-" \o JoinDash(test),
                 start_time |-> RunStart(d),
                 end_time |-> RunStart(d) + EXPECTED_TEST_DURATION_S - TEST_DURATION_TOLERANCE_S]
    IN  [is_dir |-> TRUE,
         files |-> << ScriptFile,
                      [stem |-> "k6-summary", proxy |-> proxy, test |-> test, doc |-> SummaryDoc],
                      [stem |-> "k6-out", proxy |-> proxy, test |-> test, doc |-> meta] >>]

RunFileSystems ==
    { [exists |-> TRUE, entries |-> [d \in D |-> RunDir(d)]] :
        D \in { X \in SUBSET DirNames : X # {} /\ Cardinality(X) <= MaxRuns } }

CatalogOf(f) == LET runs == LoadedRuns(f).runs IN [i \in 1..Len(runs) |-> runs[i].row]

Catalogs == { CatalogOf(f) : f \in RunFileSystems }

\* a sample telegraf writes: the CPU and the memory measurement of one
\* container at one second, either of which can be missing
SampleChoices ==
    { [tags |-> TagsOf("go-proxy"), t |-> 940, cpu |-> 5, mem |-> 50, kind |-> "both"],
      [tags |-> TagsOf("go-proxy"), t |-> 1000, cpu |-> 7, mem |-> 70, kind |-> "both"],
      [tags |-> TagsOf("go-proxy"), t |-> 1256, cpu |-> 3, mem |-> 30, kind |-> "cpu"],
      [tags |-> TagsOf("java-proxy"), t |-> 960, cpu |-> 9, mem |-> 90, kind |-> "mem"],
      [tags |-> TagsOf("java-proxy"), t |-> 2100, cpu |-> 11, mem |-> 110, kind |-> "both"],
      [tags |-> TagsOf("telegraf"), t |-> 940, cpu |-> 1, mem |-> 10, kind |-> "both"],
      [tags |-> ("host" :> "bench"), t |-> 1100, cpu |-> 2, mem |-> 20, kind |-> "both"] }

CpuPoints(samples) ==
    { [tags |-> x.tags, t |-> x.t, v |-> x.cpu] : x \in { y \in samples : y.kind \in {"both", "cpu"} } }

MemPoints(samples) ==
    { [tags |-> x.tags, t |-> x.t, v |-> x.mem * MiB] : x \in { y \in samples : y.kind \in {"both", "mem"} } }

DockerStores ==
    { [up |-> u, cpu |-> CpuPoints(S), mem |-> MemPoints(S)] :
        u \in BOOLEAN,
        S \in { X \in SUBSET SampleChoices : Cardinality(X) <= MaxSamples } }

LoadIdle ==
    /\ fs = [exists |-> FALSE, entries |-> <<>>]
    /\ catalog = <<>>
    /\ origin = <<>>
    /\ lpc = "idle"

InitAgg ==
    /\ LoadIdle
    /\ StmtIdle
    /\ TokenIdle
    /\ WinIdle
    /\ TsIdle
    /\ order = <<>>
    /\ summary_df \in Catalogs
    /\ dstore \in DockerStores
    /\ dfaults \in SUBSET (1..Len(summary_df))
    /\ enriched = <<>>
    /\ apc = "start"
    /\ dclient = "none"

\* analyse.main calling add_docker_stats_from_influxdb
AddDockerStatsFromInfluxdb ==
    /\ apc = "start"
    /\ LET res == AddDockerStats(summary_df, dstore, dfaults)
       IN  /\ enriched' = res.df
           /\ apc' = IF res.raised THEN "raised" ELSE "done"
    /\ dclient' = DockerClientAfter(summary_df, dstore)
    /\ order' = Append(order, "agg")
    /\ UNCHANGED <<summary_df, dstore, dfaults>>
    /\ UNCHANGED <<loaderVars, winVars, tsVars, stmtVars, tokenVars>>

NextAgg == AddDockerStatsFromInfluxdb

SpecAgg == InitAgg /\ [][NextAgg]_vars

(***************************************************************************)
(* Properties of the resource stats aggregator.                            *)
(***************************************************************************)
QueryLo(i) == summary_df[i].start_time - 60
QueryHi(i) == summary_df[i].end_time + 60

PointsInRange(points, i) == { p \in points : p.t >= QueryLo(i) /\ p.t <= QueryHi(i) }

\* the components with a sample in the queried range of row i
ComponentsInRange(i) ==
    { p.tags["io.telegraf.group.name"] :
        p \in { q \in PointsInRange(dstore.cpu, i) \cup PointsInRange(dstore.mem, i) :
                  "io.telegraf.group.name" \in DOMAIN q.tags } }

\* the query of row i raises, returns no data or returns only untagged
\* series, or the processing of the row raises for want of a proxy
RowFails(i) ==
    \/ i \in dfaults
    \/ PointsInRange(dstore.cpu, i) = {} \/ PointsInRange(dstore.mem, i) = {}
    \/ \A p \in PointsInRange(dstore.cpu, i) : "io.telegraf.group.name" \notin DOMAIN p.tags
    \/ \A p \in PointsInRange(dstore.mem, i) : "io.telegraf.group.name" \notin DOMAIN p.tags
    \/ "proxy" \notin DOMAIN summary_df[i]

\* C6: when the connection to the resource store fails the catalog comes
\* back unchanged: no avg_cpu, no avg_mem_mib, no windowed column on any
\* row (absent, not zero), and every summary metric keeps its value.
C6_StoreDownLeavesCatalog ==
    (apc = "done" /\ ~dstore.up) =>
        /\ Len(enriched) = Len(summary_df)
        /\ \A i \in DOMAIN enriched :
              /\ DOMAIN enriched[i] = DOMAIN summary_df[i]
              /\ \A c \in DOMAIN summary_df[i] : enriched[i][c] = summary_df[i][c]
              /\ "avg_cpu" \notin DOMAIN enriched[i]
              /\ "avg_mem_mib" \notin DOMAIN enriched[i]
              /\ "go-proxy_cpu_during_avg" \notin DOMAIN enriched[i]

C6_Witness ==
    /\ apc = "done"
    /\ ~dstore.up
    /\ Len(enriched) = 2
    /\ PointsInRange(dstore.cpu, 1) # {}
    /\ PointsInRange(dstore.mem, 1) # {}
    /\ enriched[1].rps = 100

\* the rows of the catalog that do not fail, in order
RECURSIVE SurvivingRows(_)
SurvivingRows(i) ==
    IF i = 0 THEN <<>>
    ELSE IF RowFails(i) THEN SurvivingRows(i - 1)
    ELSE Append(SurvivingRows(i - 1), i)

\* C7: a run whose query raises, returns no data or returns only untagged
\* series is left with empty resource data and nothing else; every other
\* run has the resource data it would have were the failing runs absent
\* from the catalog, and the pass does not raise.
C7_FailureIsolated ==
    /\ apc # "raised"
    /\ (apc = "done" /\ dstore.up) =>
          /\ Len(enriched) = Len(summary_df)
          /\ \A i \in DOMAIN enriched :
                RowFails(i) =>
                    /\ enriched[i].docker_stats_df = <<>>
                    /\ DOMAIN enriched[i] = DOMAIN summary_df[i] \cup {"docker_stats_df"}
          /\ \A kept \in { SurvivingRows(Len(summary_df)) } :
             \A alone \in { AddDockerStats([j \in 1..Len(kept) |-> summary_df[kept[j]]], dstore, {}).df } :
                \A j \in 1..Len(kept) : enriched[kept[j]] = alone[j]

C7_Witness ==
    /\ apc = "done"
    /\ dstore.up
    /\ Len(enriched) = 2
    /\ 2 \in dfaults /\ ~RowFails(1)
    /\ "docker_stats_df" \in DOMAIN enriched[1]
    /\ enriched[2].docker_stats_df = <<>>
    /\ Len(enriched[1].docker_stats_df) > 0
    /\ "avg_cpu" \in DOMAIN enriched[1]

\* the (second, component) pairs that have a row with a CPU and a memory value
CoveredByMerged(frame) ==
    { <<frame[k].time, frame[k].name>> :
        k \in { j \in 1..Len(frame) :
                  frame[j].cpu_perc_float # NaN /\ frame[j].mem_bytes # NaN } }

CoveredBySeries(frame) ==
    { <<frame[k].time, frame[k].name>> :
        k \in { j \in 1..Len(frame) :
                  frame[j].cpu_perc_float # NaN /\ frame[j].mem_usage_mib # NaN } }

\* C10: after the forward fill and the backward fill the series of a run
\* has, for every component sampled anywhere in the queried range and for
\* every second of the range, a row with a CPU and a memory value; the
\* series attached to the run keeps those rows for the allow-listed
\* components.
C10_FilledEverySecond ==
    apc = "done" =>
        \A i \in DOMAIN enriched :
            ("docker_stats_df" \in DOMAIN enriched[i] /\ Len(enriched[i].docker_stats_df) > 0) =>
                /\ \A merged \in { MergedFrame(dstore, QueryLo(i), QueryHi(i)) } :
                      ComponentsInRange(i) # {}
                      /\ (QueryLo(i)..QueryHi(i)) \X ComponentsInRange(i) \subseteq CoveredByMerged(merged)
                /\ (QueryLo(i)..QueryHi(i)) \X (ComponentsInRange(i) \cap RELEVANT_CONTAINERS)
                      \subseteq CoveredBySeries(enriched[i].docker_stats_df)

\* a component first sampled after the start of the range, next to one
\* that is sampled for memory only
C10_Witness ==
    /\ apc = "done"
    /\ Len(enriched) >= 1
    /\ "docker_stats_df" \in DOMAIN enriched[1]
    /\ Len(enriched[1].docker_stats_df) > 0
    /\ ComponentsInRange(1) = {"go-proxy", "java-proxy"}
    /\ \A p \in PointsInRange(dstore.cpu, 1) : p.t > QueryLo(1)

(***************************************************************************)
(* _calculate_detailed_docker_stats on its own: frames of a few rows       *)
(* around a test window.  Seconds are counted from the start of the        *)
(* queried range; the frame is ordered by (time, name) as the merge leaves *)
(* it, and start_dt <= end_dt as the duration gate of the loader ensures.  *)
(***************************************************************************)
MaxWinRows == 2      \* rows of the frame
MaxWinTime == 3      \* last second of the queried range

WinContainers == {"go-proxy", "java-proxy"}
WinCpuValues == {5, 7}

WinRow(t, name, cpu) ==
    [time |-> t, name |-> name, cpu_perc_float |-> cpu, mem_usage_mib |-> 10 * cpu]

\* the ordering of pd.merge(..., how='outer') on ['time', 'name']
RowBefore(a, b) ==
    a.time < b.time \/ (a.time = b.time /\ NameRank(a.name) < NameRank(b.name))

WinFrames ==
    { f \in UNION { [1..n -> { WinRow(t, c, v) : t \in 0..MaxWinTime, c \in WinContainers,
                                                 v \in WinCpuValues }] : n \in 0..MaxWinRows } :
        \A k \in 1..(Len(f) - 1) : RowBefore(f[k], f[k + 1]) }

InitWin ==
    /\ LoadIdle
    /\ StmtIdle
    /\ TokenIdle
    /\ AggIdle
    /\ TsIdle
    /\ order = <<>>
    /\ win_stats_df \in WinFrames
    /\ win_start_dt \in 0..MaxWinTime
    /\ win_end_dt \in win_start_dt..MaxWinTime
    /\ win_periods = <<>>
    /\ win_detailed_stats = <<>>
    /\ wpc = "start"

\* the row loop calling _calculate_detailed_docker_stats
CalculateDetailedDockerStats ==
    /\ wpc = "start"
    /\ win_periods' = PeriodFrames(win_stats_df, win_start_dt, win_end_dt)
    /\ win_detailed_stats' = DetailedStats(win_stats_df, win_start_dt, win_end_dt)
    /\ wpc' = "done"
    /\ UNCHANGED <<win_stats_df, win_start_dt, win_end_dt>>
    /\ UNCHANGED <<loaderVars, aggVars, tsVars, order, stmtVars, tokenVars>>

NextWin == CalculateDetailedDockerStats

SpecWin == InitWin /\ [][NextWin]_vars

\* the windows a row of the frame was put in
WindowsOf(k) == { p \in Periods : k \in win_periods[p] }

\* C9: with start_time <= end_time the three windows partition the
\* samples: a sample before start_time is in before only, one from
\* start_time to end_time (both included) is in during only, one after
\* end_time is in after only; the statistics written for a component and
\* a window are those of a component that has a sample in that window.
C9_WindowsPartition ==
    (wpc = "done" /\ win_start_dt <= win_end_dt) =>
        /\ \A k \in 1..Len(win_stats_df) :
              LET t == win_stats_df[k].time
              IN  /\ Cardinality(WindowsOf(k)) = 1
                  /\ t < win_start_dt => WindowsOf(k) = {"before"}
                  /\ (win_start_dt <= t /\ t <= win_end_dt) => WindowsOf(k) = {"during"}
                  /\ t > win_end_dt => WindowsOf(k) = {"after"}
        /\ \A c \in WinContainers, p \in Periods :
              StatKey(c, "cpu", p, "min") \in DOMAIN win_detailed_stats
                  <=> \E k \in 1..Len(win_stats_df) :
                        /\ win_stats_df[k].name = c
                        /\ CASE p = "before" -> win_stats_df[k].time < win_start_dt
                             [] p = "during" -> win_start_dt <= win_stats_df[k].time
                                                /\ win_stats_df[k].time <= win_end_dt
                             [] p = "after" -> win_stats_df[k].time > win_end_dt

\* one sample exactly at start_time and one exactly at end_time
C9_Witness ==
    /\ wpc = "done"
    /\ win_start_dt < win_end_dt
    /\ Len(win_stats_df) = 2
    /\ win_stats_df[1].time = win_start_dt
    /\ win_stats_df[2].time = win_end_dt
    /\ win_periods["during"] = {1, 2}
    /\ "go-proxy_cpu_during_avg" \in DOMAIN win_detailed_stats

(***************************************************************************)
(* The k6 time-series correlator: load_k6_timeseries_from_influxdb.        *)
(***************************************************************************)
\* the (measurement, metric name) pairs of the loop at line 192
K6Metrics == << <<"http_reqs", "rps">>, <<"http_req_failed", "error_rate">> >>

\* the points a query selects: "test_run_id" = test_id and time in
\* [start_time, end_time]
SelectedPoints(st, metric, test_id, start_time, end_time) ==
    { p \in st.points :
        /\ p.measurement = metric
        /\ p.test_run_id = test_id
        /\ p.t >= start_time
        /\ p.t <= end_time }

RECURSIVE SumValues(_)
SumValues(points) ==
    IF points = {} THEN 0
    ELSE LET p == CHOOSE x \in points : TRUE
         IN  p.value + SumValues(points \ {p})

\* SELECT sum("value") ... GROUP BY time(1s) fill(0): one row for every
\* second of the range, 0 where the second has no point; the frame with
\* relative_time, test_id and metric set (lines 197-200)
MetricFrame(selected, test_id, metric_name, start_time, end_time) ==
    [k \in 1..(end_time - start_time + 1) |->
        [value |-> SumValues({ p \in selected : p.t = start_time + k - 1 }),
         relative_time |-> k - 1,
         test_id |-> test_id,
         metric |-> metric_name]]

\* the body of the try of one (row, metric) pair: the frame appended to
\* all_timeseries_data (none when the measurement is not in the result),
\* or the exception raised by client.query
QueryOutcome(row, m, st, fault) ==
    IF fault
    THEN [exc |-> TRUE, frames |-> <<>>]
    ELSE LET selected == SelectedPoints(st, m[1], row.test_id, row.start_time, row.end_time)
         IN  [exc |-> FALSE,
              frames |-> IF selected = {} THEN <<>>
                         ELSE << MetricFrame(selected, row.test_id, m[2],
                                             row.start_time, row.end_time) >>]

\* the exception of a query let through
HandleQueryError_Reraise(outcome) == outcome

\* the except clause of the query (lines 202-203)
HandleQueryError(outcome) ==
    IF outcome.exc THEN [exc |-> FALSE, frames |-> <<>>] ELSE outcome

RECURSIVE Concat(_)
Concat(frames) ==
    IF frames = <<>> THEN <<>> ELSE Head(frames) \o Concat(Tail(frames))

\* the loops over the rows and the two metrics: all_timeseries_data, or
\* the exception that left the loops
RECURSIVE AllTimeseriesData(_, _, _, _)
AllTimeseriesData(df, st, faults, n) ==
    IF n = 0 THEN [exc |-> FALSE, frames |-> <<>>]
    ELSE LET i == (n + 1) \div 2
             j == IF n % 2 = 1 THEN 1 ELSE 2
             before == AllTimeseriesData(df, st, faults, n - 1)
         IN  IF before.exc THEN before
             ELSE LET outcome == HandleQueryError(
                                    QueryOutcome(df[i], K6Metrics[j], st,
                                                 <<i, K6Metrics[j][1]>> \in faults))
                  IN  [exc |-> outcome.exc, frames |-> before.frames \o outcome.frames]

\* client.ping() of the k6 client returns
K6Connected(st) == st.up

\* load_k6_timeseries_from_influxdb: the rows of the returned DataFrame
\* (none for the empty pd.DataFrame()) and whether the call raised
LoadK6Timeseries(df, st, faults) ==
    IF ~K6Connected(st) THEN [raised |-> FALSE, df |-> <<>>]
    ELSE LET all == AllTimeseriesData(df, st, faults, 2 * Len(df))
         IN  IF all.exc THEN [raised |-> TRUE, df |-> <<>>]
             ELSE [raised |-> FALSE, df |-> Concat(all.frames)]

\* the client of load_k6_timeseries_from_influxdb when the function
\* returns: opened at lines 183-184, closed by no line of the function
K6ClientAfter(st) == IF ~K6Connected(st) THEN "none" ELSE "open"

MaxK6Points == 2     \* points held by the k6 store

\* points of the k6 store: two in the first second of the go-proxy run,
\* one in its last second, one a second after it, and points of the
\* other runs
K6PointChoices ==
    { [measurement |-> "http_reqs", test_run_id |-> "go-proxy-smoke-1k", t |-> 1000, value |-> 3],
      [measurement |-> "http_reqs", test_run_id |-> "go-proxy-smoke-1k", t |-> 1000, value |-> 4],
      [measurement |-> "http_reqs", test_run_id |-> "go-proxy-smoke-1k", t |-> 1255, value |-> 2],
      [measurement |-> "http_reqs", test_run_id |-> "go-proxy-smoke-1k", t |-> 1256, value |-> 9],
      [measurement |-> "http_req_failed", test_run_id |-> "go-proxy-smoke-1k", t |-> 1100, value |-> 1],
      [measurement |-> "http_reqs", test_run_id |-> "java-proxy-smoke-1k", t |-> 2100, value |-> 5],
      [measurement |-> "http_req_failed", test_run_id |-> "node-proxy-warmup", t |-> 1000, value |-> 1] }

K6Stores ==
    { [up |-> u, points |-> P] :
        u \in BOOLEAN,
        P \in { X \in SUBSET K6PointChoices : Cardinality(X) <= MaxK6Points } }

InitTs ==
    /\ LoadIdle
    /\ StmtIdle
    /\ TokenIdle
    /\ WinIdle
    /\ order = <<>>
    /\ summary_df \in Catalogs
    /\ dstore = [up |-> FALSE, cpu |-> {}, mem |-> {}]
    /\ dfaults = {}
    /\ enriched = <<>>
    /\ apc = "idle"
    /\ dclient = "none"
    /\ kstore \in K6Stores
    /\ kfaults \in SUBSET ((1..Len(summary_df)) \X {"http_reqs", "http_req_failed"})
    /\ k6_timeseries_df = <<>>
    /\ tpc = "start"
    /\ kclient = "none"

\* analyse.main calling load_k6_timeseries_from_influxdb, with the catalog
\* the resource pass returned when that pass ran before
LoadK6TimeseriesFromInfluxdb ==
    /\ tpc = "start"
    /\ LET res == LoadK6Timeseries(IF apc = "done" THEN enriched ELSE summary_df,
                                   kstore, kfaults)
       IN  /\ k6_timeseries_df' = res.df
           /\ tpc' = IF res.raised THEN "raised" ELSE "done"
    /\ kclient' = K6ClientAfter(kstore)
    /\ order' = Append(order, "ts")
    /\ UNCHANGED <<kstore, kfaults>>
    /\ UNCHANGED <<loaderVars, aggVars, winVars, stmtVars, tokenVars>>

NextTs == LoadK6TimeseriesFromInfluxdb

SpecTs == InitTs /\ [][NextTs]_vars

\* the (test_id, metric name) pairs that have a row in the output
PairsPresent ==
    { <<k6_timeseries_df[k].test_id, k6_timeseries_df[k].metric>> :
        k \in 1..Len(k6_timeseries_df) }

\* the query of row i for measurement m succeeds and has data
QuerySucceedsWithData(i, m) ==
    /\ <<i, m>> \notin kfaults
    /\ \E p \in kstore.points :
          /\ p.measurement = m
          /\ p.test_run_id = summary_df[i].test_id
          /\ summary_df[i].start_time <= p.t
          /\ p.t <= summary_df[i].end_time

MetricNameOf(m) == IF m = "http_reqs" THEN "rps" ELSE "error_rate"

\* C8: the correlation pass never raises; without a connection its result
\* is the empty table; otherwise the (run, metric) pairs in the output are
\* exactly those whose query succeeds with data, so a failing query takes
\* away its own pair and no other.
C8_QueryFailureIsolated ==
    /\ tpc # "raised"
    /\ (tpc = "done" /\ ~kstore.up) => k6_timeseries_df = <<>>
    /\ (tpc = "done" /\ kstore.up) =>
          PairsPresent =
              { <<summary_df[i].test_id, MetricNameOf(m)>> :
                  <<i, m>> \in { x \in (1..Len(summary_df)) \X {"http_reqs", "http_req_failed"} :
                                   QuerySucceedsWithData(x[1], x[2]) } }

\* the error-rate query of the go-proxy run raises while its request-rate
\* query has data
C8_Witness ==
    /\ tpc = "done"
    /\ kstore.up
    /\ <<1, "http_req_failed">> \in kfaults
    /\ \E p \in kstore.points : p.measurement = "http_req_failed" /\ p.t = 1100
    /\ summary_df[1].test_id = "go-proxy-smoke-1k"
    /\ PairsPresent = { <<"go-proxy-smoke-1k", "rps">> }

\* C11: the store connection of an enrichment pass is released when the
\* pass ends, on the normal path and on the paths where a query of a run
\* failed.
C11_ConnectionReleased ==
    /\ apc \in {"done", "raised"} => dclient # "open"
    /\ tpc \in {"done", "raised"} => kclient # "open"

(***************************************************************************)
(* The two enrichment passes of analyse.main in either order.              *)
(***************************************************************************)
MaxPassSamples == 1  \* samples of the resource store when both passes run
MaxPassPoints == 1   \* points of the k6 store when both passes run

PassDockerStores ==
    { st \in DockerStores :
        \E S \in { X \in SUBSET SampleChoices : Cardinality(X) <= MaxPassSamples } :
            st.cpu = CpuPoints(S) /\ st.mem = MemPoints(S) }

PassK6Stores == { st \in K6Stores : Cardinality(st.points) <= MaxPassPoints }

InitPasses ==
    /\ LoadIdle
    /\ StmtIdle
    /\ TokenIdle
    /\ WinIdle
    /\ order = <<>>
    /\ summary_df \in Catalogs
    /\ dstore \in PassDockerStores
    /\ dfaults \in SUBSET {1}
    /\ enriched = <<>>
    /\ apc = "start"
    /\ dclient = "none"
    /\ kstore \in PassK6Stores
    /\ kfaults \in SUBSET { <<1, "http_reqs">> }
    /\ k6_timeseries_df = <<>>
    /\ tpc = "start"
    /\ kclient = "none"

NextPasses == AddDockerStatsFromInfluxdb \/ LoadK6TimeseriesFromInfluxdb

SpecPasses == InitPasses /\ [][NextPasses]_vars

\* C12: whichever enrichment pass runs first, the enriched catalog is the
\* one the aggregator builds from the loaded catalog and the time-series
\* table is the one the correlator builds from the loaded catalog; the
\* aggregator leaves the fields the correlator reads as they were.
C12_PassesCommute ==
    (apc = "done" /\ tpc = "done") =>
        /\ enriched = AddDockerStats(summary_df, dstore, dfaults).df
        /\ k6_timeseries_df = LoadK6Timeseries(summary_df, kstore, kfaults).df
        /\ \A i \in DOMAIN enriched :
              /\ enriched[i].test_id = summary_df[i].test_id
              /\ enriched[i].start_time = summary_df[i].start_time
              /\ enriched[i].end_time = summary_df[i].end_time

\* the resource pass ran first, a row of it failed and the correlator
\* still found the points of that run
C12_Witness ==
    /\ apc = "done" /\ tpc = "done"
    /\ order = <<"agg", "ts">>
    /\ dstore.up /\ kstore.up
    /\ 1 \in dfaults
    /\ "docker_stats_df" \in DOMAIN enriched[1]
    /\ Len(k6_timeseries_df) > 0
    /\ k6_timeseries_df[1].test_id = summary_df[1].test_id

(***************************************************************************)
(* comparative_analysis.py: the two statement generators.                  *)
(*                                                                         *)
(* A metric value is an exact fraction [num, den] with den > 0, NaNFrac    *)
(* for a null cell; statements are strings.                                *)
(***************************************************************************)
\* pd.isna(val)
IsNa(val) == val.den = 0

\* a whole number and a number of millionths as metric values
Whole(n) == [num |-> n, den |-> 1]
Millionths(n) == Frac(n, 1000000)

\* the guards of lines 48 and 117 letting a zero through
IsPositive_OrZero(val) == val.num >= 0

\* val > 0
IsPositive(val) == val.num > 0
IsNegative(val) == val.num < 0
LessThan(a, b) == a.num * b.den < b.num * a.den

\* a - b
Minus(a, b) ==
    IF a.den = b.den THEN Frac(a.num - b.num, a.den)
    ELSE Frac(a.num * b.den - b.num * a.den, a.den * b.den)

\* a / b, reduced before the products are formed; a division by zero of
\* numpy floats gives inf, -inf or nan ([1, 0], [-1, 0], [0, 0])
DividedBy(a, b) ==
    LET sign == IF b.num < 0 THEN 0 - 1 ELSE 1
        bn == Abs(b.num)
        g1 == GCD(Abs(a.num), bn)
        g2 == GCD(a.den, b.den)
    IN  IF b.num = 0
        THEN [num |-> IF a.num > 0 THEN 1 ELSE IF a.num < 0 THEN 0 - 1 ELSE 0, den |-> 0]
        ELSE IF a.num = 0 THEN Whole(0)
        ELSE Frac(sign * (a.num \div g1) * (b.den \div g2), (a.den \div g2) * (bn \div g1))

\* a * 100
Times100(a) ==
    LET g == GCD(a.den, 100)
    IN  IF a.den = 0 THEN a ELSE Frac(a.num * (100 \div g), a.den \div g)

AbsVal(a) == [num |-> Abs(a.num), den |-> a.den]

\* the digits of floor(r * 10^k / den) and the remainder, by long division
RECURSIVE LongDivision(_, _, _)
LongDivision(r, den, k) ==
    IF k = 0 THEN [q |-> 0, r |-> r]
    ELSE LET p == LongDivision(r, den, k - 1)
         IN  [q |-> p.q * 10 + ((p.r * 10) \div den), r |-> (p.r * 10) % den]

\* round-half-even of a quotient q with remainder r over den
RoundHalfEven(q, r, den) ==
    IF 2 * r > den \/ (2 * r = den /\ q % 2 = 1) THEN q + 1 ELSE q

RECURSIVE ZeroPad(_, _)
ZeroPad(str, width) == IF Len(str) >= width THEN str ELSE ZeroPad("0" \o str, width)

\* f"{val:.5f}"
Fixed5(val) ==
    LET n == Abs(val.num)
        whole == n \div val.den
        p == LongDivision(n % val.den, val.den, 5)
        frac == RoundHalfEven(p.q, p.r, val.den)
        carried == IF frac = 100000 THEN whole + 1 ELSE whole
        digits == IF frac = 100000 THEN 0 ELSE frac
        sign == IF val.num < 0 THEN "-" ELSE ""
    IN  IF val.den = 0
        THEN IF val.num = 0 THEN "nan" ELSE sign \o "inf"
        ELSE sign \o ToString(carried) \o "." \o ZeroPad(ToString(digits), 5)

\* the "," grouping of a natural number
RECURSIVE Grouped(_)
Grouped(n) ==
    IF n < 1000 THEN ToString(n)
    ELSE Grouped(n \div 1000) \o "," \o ZeroPad(ToString(n % 1000), 3)

\* f"{val:,.0f}"
Comma0(val) ==
    LET n == Abs(val.num)
        rounded == RoundHalfEven(n \div val.den, n % val.den, val.den)
    IN  (IF val.num < 0 THEN "-" ELSE "") \o Grouped(rounded)

\* keyword in metric_name
Contains(str, keyword) ==
    \E i \in 1..(Len(str) - Len(keyword) + 1) : SubSeq(str, i, i + Len(keyword) - 1) = keyword

\* str.replace(old, new): the occurrences of old from left to right
RECURSIVE ReplaceFrom(_, _, _, _)
ReplaceFrom(str, old, new, i) ==
    LET hits == { k \in i..(Len(str) - Len(old) + 1) : SubSeq(str, k, k + Len(old) - 1) = old }
    IN  IF hits = {} THEN SubSeq(str, i, Len(str))
        ELSE LET hit == CHOOSE k \in hits : \A h \in hits : k <= h
             IN  SubSeq(str, i, hit - 1) \o new \o ReplaceFrom(str, old, new, hit + Len(old))

Replace(str, old, new) == ReplaceFrom(str, old, new, 1)

\* config.COMPARATIVE_METRICS_MAP, in the order of the dict
COMPARATIVE_METRICS_MAP ==
    << <<"Average RPS", "rps">>,
       <<"Total Requests", "total_reqs">>,
       <<"Failure Count", "fail_count">>,
       <<"Failure Rate", "fail_rate">>,
       <<"Error Rate", "error_rate">>,
       <<"Check Pass Rate", "checks_pass_rate">>,
       <<"Check Pass Count", "checks_pass_count">>,
       <<"Check Fail Count", "checks_fail_count">>,
       <<"P95 Duration (ms)", "duration_p95">>,
       <<"P90 Duration (ms)", "duration_p90">>,
       <<"Average Duration (ms)", "duration_avg">>,
       <<"Median Duration (ms)", "duration_med">>,
       <<"Min Duration (ms)", "duration_min">>,
       <<"Max Duration (ms)", "duration_max">>,
       <<"P95 TTFB (ms)", "waiting_p95">>,
       <<"P90 TTFB (ms)", "waiting_p90">>,
       <<"Average TTFB (ms)", "waiting_avg">>,
       <<"Median TTFB (ms)", "waiting_med">>,
       <<"Min TTFB (ms)", "waiting_min">>,
       <<"Max TTFB (ms)", "waiting_max">>,
       <<"P95 Connection Time (ms)", "connecting_p95">>,
       <<"P90 Connection Time (ms)", "connecting_p90">>,
       <<"Average Connection Time (ms)", "connecting_avg">>,
       <<"Median Connection Time (ms)", "connecting_med">>,
       <<"Min Connection Time (ms)", "connecting_min">>,
       <<"Max Connection Time (ms)", "connecting_max">>,
       <<"Average Iteration Duration (ms)", "iteration_duration_avg">>,
       <<"Min Iteration Duration (ms)", "iteration_duration_min">>,
       <<"Max Iteration Duration (ms)", "iteration_duration_max">>,
       <<"Average CPU Usage (%)", "avg_cpu">>,
       <<"CPU Usage (%)", "cpu_perc_float">>,
       <<"Min CPU Usage (%)", "min_cpu">>,
       <<"Max CPU Usage (%)", "max_cpu">>,
       <<"Average Memory Usage (MiB)", "avg_mem_mib">>,
       <<"Memory (MiB)", "mem_usage_mib">>,
       <<"Min Memory Usage (MiB)", "min_mem_mib">>,
       <<"Max Memory Usage (MiB)", "max_mem_mib">> >>

\* the keywords of the "lower is better" test (lines 52-55 and 118-121)
IntraKeywords ==
    {"Latency", "TTFB", "Connection Time", "CPU", "Memory", "Failure", "Duration", "Time", "Usage"}

\* the keyword list of lines 118-121 without "Duration"
CrossKeywords_NoDuration ==
    {"Latency", "TTFB", "Connection Time", "CPU", "Memory", "Failure", "Time", "Usage"}

CrossKeywords ==
    {"Latency", "TTFB", "Connection Time", "CPU", "Memory", "Failure", "Duration", "Time", "Usage"}

\* any(keyword in metric_name for keyword in [...])
AnyKeywordIn(metric_name, keywords) == \E keyword \in keywords : Contains(metric_name, keyword)

\* is_count
IsCount(metric_name) == Contains(metric_name, "Count") \/ Contains(metric_name, "Requests")

\* val_old_str, val_new_str, val1_str, val2_str
ValStr(metric_name, val) == IF IsCount(metric_name) THEN Comma0(val) ELSE Fixed5(val)

\* the code points of the characters the labels are made of, in order
Alphabet == "-0123456789ABCDEFGHIJKLMNOPQRSTUVWXYZabcdefghijklmnopqrstuvwxyz"
UpperCase == "ABCDEFGHIJKLMNOPQRSTUVWXYZ"
LowerCase == "abcdefghijklmnopqrstuvwxyz"

IndexIn(str, c) ==
    IF \E i \in 1..Len(str) : SubSeq(str, i, i) = c
    THEN CHOOSE i \in 1..Len(str) : SubSeq(str, i, i) = c
    ELSE 0

\* a < b for two str values
RECURSIVE StrLess(_, _)
StrLess(a, b) ==
    IF Len(b) = 0 THEN FALSE
    ELSE IF Len(a) = 0 THEN TRUE
    ELSE LET ra == IndexIn(Alphabet, Head(a))
             rb == IndexIn(Alphabet, Head(b))
         IN  IF ra # rb THEN ra < rb ELSE StrLess(Tail(a), Tail(b))

\* sorted(values) of a set of str
RECURSIVE SortedStrs(_)
SortedStrs(values) ==
    IF values = {} THEN <<>>
    ELSE LET least == CHOOSE v \in values : \A w \in values \ {v} : StrLess(v, w)
         IN  <<least>> \o SortedStrs(values \ {least})

\* str.title(): a letter after a non-letter in upper case, the others in lower case
RECURSIVE TitleFrom(_, _, _)
TitleFrom(str, i, after_letter) ==
    IF i > Len(str) THEN ""
    ELSE LET c == SubSeq(str, i, i)
             lo == IndexIn(LowerCase, c)
             up == IndexIn(UpperCase, c)
             k == IF lo > 0 THEN lo ELSE up
         IN  (IF k = 0 THEN c
              ELSE IF after_letter THEN SubSeq(LowerCase, k, k)
              ELSE SubSeq(UpperCase, k, k))
             \o TitleFrom(str, i + 1, k > 0)

Title(str) == TitleFrom(str, 1, FALSE)

\* int(str) of a string of digits
RECURSIVE ToInt(_)
ToInt(str) ==
    IF Len(str) = 0 THEN 0
    ELSE 10 * ToInt(SubSeq(str, 1, Len(str) - 1))
         + (IndexIn("0123456789", SubSeq(str, Len(str), Len(str))) - 1)

\* the load taken from the first character of the label only
UsersNumeric_FirstDigit(users) == ToInt(SubSeq(users, 1, 1))

\* df['users'].str.replace('k', '').astype(int)
UsersNumeric(users) == ToInt(Replace(users, "k", ""))

\* "; ".join(parts)
RECURSIVE Join(_, _)
Join(sep, parts) ==
    IF Len(parts) = 0 THEN ""
    ELSE IF Len(parts) = 1 THEN parts[1]
    ELSE parts[1] \o sep \o Join(sep, Tail(parts))

\* the cell of a row; a column the row does not hold is null
Cell(row, col) == IF col \in DOMAIN row THEN row[col] ELSE NaNFrac

\* df.columns
Columns(df) == UNION { DOMAIN df[i] : i \in 1..Len(df) }

\* the positions of a list of positions kept by a test, in order
RECURSIVE Filtered(_, _)
Filtered(positions, keep) ==
    IF Len(positions) = 0 THEN <<>>
    ELSE (IF Head(positions) \in keep THEN <<Head(positions)>> ELSE <<>>)
         \o Filtered(Tail(positions), keep)

\* df.sort_values('users_numeric'): insertion of each position after the
\* positions whose key is not greater
RECURSIVE SortedByUsers(_, _)
SortedByUsers(df, positions) ==
    IF Len(positions) = 0 THEN <<>>
    ELSE LET last == positions[Len(positions)]
             before == SortedByUsers(df, SubSeq(positions, 1, Len(positions) - 1))
             key(p) == UsersNumeric(df[p].users)
             n == Cardinality({ k \in 1..Len(before) : key(before[k]) <= key(last) })
         IN  SubSeq(before, 1, n) \o <<last>> \o SubSeq(before, n + 1, Len(before))

\* the positions 1..n as a list
Positions(n) == [k \in 1..n |-> k]

\* pct_change (line 49)
PctChange(val_old, val_new) == Times100(DividedBy(Minus(val_new, val_old), val_old))

\* the polarity of the metrics that hold no keyword turned over
Trend_Inverted(metric_name, pct_change) ==
    IF IsPositive(pct_change) THEN "worsening"
    ELSE IF IsNegative(pct_change) THEN "improving" ELSE "stable"

\* trend (lines 52-58)
Trend(metric_name, pct_change) ==
    IF AnyKeywordIn(metric_name, IntraKeywords)
    THEN IF IsPositive(pct_change) THEN "worsening"
         ELSE IF IsNegative(pct_change) THEN "improving" ELSE "stable"
    ELSE IF IsPositive(pct_change) THEN "improving"
         ELSE IF IsNegative(pct_change) THEN "worsening" ELSE "stable"

\* the part of one pair of consecutive rows (lines 41-62)
IntraPart(metric_name, row_old, row_new, val_old, val_new) ==
    LET val_old_str == ValStr(metric_name, val_old)
        val_new_str == ValStr(metric_name, val_new)
    IN  IF IsPositive(val_old)
        THEN LET pct_change == PctChange(val_old, val_new)
                 change_type == IF ~IsNegative(pct_change) THEN "increase" ELSE "decrease"
                 trend == Trend(metric_name, pct_change)
             IN  "from " \o row_old.users \o " to " \o row_new.users \o ": "
                 \o Fixed5(AbsVal(pct_change)) \o "% " \o change_type
                 \o " (" \o trend \o ", from " \o val_old_str \o " to " \o val_new_str \o ")"
        ELSE "from " \o row_old.users \o " to " \o row_new.users
             \o ": changed from " \o val_old_str \o " to " \o val_new_str

\* statement.replace('0.00000', '0.0') of the joined line (lines 67-68, 141-142)
StatementLine(metric_name, parts) ==
    Replace("\t" \o metric_name \o ": " \o Join("; ", parts) \o ".", "0.00000", "0.0")

\* the body of the loop over the metrics of one group (lines 26-68): the
\* statements it appends
IntraMetricStatements(df, members, metric) ==
    LET metric_name == metric[1]
        metric_col == metric[2]
        df_metric == Filtered(members, { p \in 1..Len(df) : ~IsNa(Cell(df[p], metric_col)) })
        parts == [i \in 1..(Len(df_metric) - 1) |->
                    IntraPart(metric_name, df[df_metric[i]], df[df_metric[i + 1]],
                              Cell(df[df_metric[i]], metric_col),
                              Cell(df[df_metric[i + 1]], metric_col))]
    IN  IF metric_col \notin Columns(df) \/ Len(df_metric) = 0 THEN <<>>
        ELSE IF Len(df_metric) < 2 THEN <<>>
        ELSE IF Len(parts) = 0 THEN <<>>
        ELSE << StatementLine(metric_name, parts) >>

\* the body of the loops over test_type and proxy (lines 16-68)
IntraGroupStatements(df, test_type, proxy) ==
    LET df_filtered == Filtered(Positions(Len(df)),
                                { p \in 1..Len(df) : df[p].proxy = proxy /\ df[p].test_type = test_type })
        members == SortedByUsers(df, df_filtered)
    IN  IF Len(df_filtered) < 2 THEN <<>>
        ELSE << "\nComparisons for " \o proxy \o " (" \o Title(test_type)
                \o " test) as User Load Increases" >>
             \o Concat([k \in 1..Len(COMPARATIVE_METRICS_MAP) |->
                          IntraMetricStatements(df, members, COMPARATIVE_METRICS_MAP[k])])

\* generate_comparative_statements
GenerateComparativeStatements(df) ==
    LET test_types == SortedStrs({ df[p].test_type : p \in 1..Len(df) })
        proxies == SortedStrs({ df[p].proxy : p \in 1..Len(df) })
    IN  << "\nComparative Metric Statements (Intra-Proxy)" >>
        \o Concat([g \in 1..(Len(test_types) * Len(proxies)) |->
                     IntraGroupStatements(df, test_types[((g - 1) \div Len(proxies)) + 1],
                                          proxies[((g - 1) % Len(proxies)) + 1])])

\* pct_diff taken against the larger of the two values
PctDiff_LargerBase(larger, smaller) == Times100(DividedBy(Minus(larger, smaller), larger))

\* pct_diff of a winner over a loser, against the value given
PctDiff(larger, smaller) == Times100(DividedBy(Minus(larger, smaller), smaller))

\* "{winner} was {pct_diff:.5f}% better than {loser} ({..} vs {..})"
WinnerPart(winner, loser, pct_diff, winner_str, loser_str) ==
    winner \o " was " \o Fixed5(pct_diff) \o "% better than " \o loser
    \o " (" \o winner_str \o " vs " \o loser_str \o ")"

\* the part of one pair of proxies (lines 110-136)
CrossPart(metric_name, proxy1, proxy2, val1, val2) ==
    LET val1_str == ValStr(metric_name, val1)
        val2_str == ValStr(metric_name, val2)
    IN  IF IsPositive(val1) /\ IsPositive(val2)
        THEN IF AnyKeywordIn(metric_name, CrossKeywords)
             THEN IF LessThan(val1, val2)
                  THEN WinnerPart(proxy1, proxy2, PctDiff(val2, val1), val1_str, val2_str)
                  ELSE WinnerPart(proxy2, proxy1, PctDiff(val1, val2), val2_str, val1_str)
             ELSE IF LessThan(val2, val1)
                  THEN WinnerPart(proxy1, proxy2, PctDiff(val1, val2), val1_str, val2_str)
                  ELSE WinnerPart(proxy2, proxy1, PctDiff(val2, val1), val2_str, val1_str)
        ELSE proxy1 \o " (" \o val1_str \o ") vs " \o proxy2 \o " (" \o val2_str \o ")"

\* pairs, sorted (lines 96-101)
RECURSIVE PairsFrom(_, _, _)
PairsFrom(n, i, j) ==
    IF i >= n THEN <<>>
    ELSE IF j > n THEN PairsFrom(n, i + 1, i + 2)
    ELSE << <<i, j>> >> \o PairsFrom(n, i, j + 1)

\* the pairs in descending order
Pairs_Descending(n) ==
    [k \in 1..Len(PairsFrom(n, 1, 2)) |->
        PairsFrom(n, 1, 2)[Len(PairsFrom(n, 1, 2)) + 1 - k]]

Pairs(n) == PairsFrom(n, 1, 2)

\* the body of the loop over the metrics of one group (lines 85-142)
CrossMetricStatements(df, group, metric) ==
    LET metric_name == metric[1]
        metric_col == metric[2]
        df_metric == Filtered(group, { p \in 1..Len(df) : ~IsNa(Cell(df[p], metric_col)) })
        pairs == Pairs(Len(df_metric))
        parts == [k \in 1..Len(pairs) |->
                    CrossPart(metric_name,
                              df[df_metric[pairs[k][1]]].proxy, df[df_metric[pairs[k][2]]].proxy,
                              Cell(df[df_metric[pairs[k][1]]], metric_col),
                              Cell(df[df_metric[pairs[k][2]]], metric_col))]
    IN  IF metric_col \notin Columns(df) \/ Len(df_metric) = 0 THEN <<>>
        ELSE IF Len(df_metric) < 2 THEN <<>>
        ELSE IF Len(parts) = 0 THEN <<>>
        ELSE << StatementLine(metric_name, parts) >>

\* the body of the loop over the groups (lines 79-142)
CrossGroupStatements(df, test_type, users) ==
    LET group == Filtered(Positions(Len(df)),
                          { p \in 1..Len(df) : df[p].test_type = test_type /\ df[p].users = users })
    IN  IF Len(group) < 2 THEN <<>>
        ELSE << "\nComparison for " \o Title(test_type) \o " Test @ " \o users \o " Users" >>
             \o Concat([k \in 1..Len(COMPARATIVE_METRICS_MAP) |->
                          CrossMetricStatements(df, group, COMPARATIVE_METRICS_MAP[k])])

\* the keys of summary_df.groupby(['test_type', 'users']), sorted
RECURSIVE SortedKeys(_)
SortedKeys(keys) ==
    IF keys = {} THEN <<>>
    ELSE LET least == CHOOSE k \in keys : \A w \in keys \ {k} :
                          StrLess(k[1], w[1]) \/ (k[1] = w[1] /\ StrLess(k[2], w[2]))
         IN  <<least>> \o SortedKeys(keys \ {least})

\* generate_cross_proxy_statements
GenerateCrossProxyStatements(df) ==
    LET keys == SortedKeys({ <<df[p].test_type, df[p].users>> : p \in 1..Len(df) })
    IN  << "\nCross-Proxy Comparative Statements (Pairwise Comparisons)" >>
        \o Concat([g \in 1..Len(keys) |-> CrossGroupStatements(df, keys[g][1], keys[g][2])])

(***************************************************************************)
(* run_analysis on catalogs of a few runs of the smoke test.  Every row    *)
(* holds one column of the metric table, with values of the kind stored in *)
(* it: rates and durations as decimals, request totals as whole numbers.   *)
(***************************************************************************)
MaxStmtRows == 2     \* rows of the catalog handed to run_analysis

StmtProxies == {"Go", "Java"}
StmtColumns == {"rps", "duration_p95", "fail_rate", "total_reqs", "error_rate"}

StmtValues(col) ==
    CASE col = "rps" -> {NaNFrac, Whole(0), Whole(100), Whole(150)}
      [] col = "duration_p95" -> {NaNFrac, Whole(90), Whole(120)}
      [] col = "fail_rate" -> {Whole(0), Millionths(14), Millionths(26)}
      [] col = "total_reqs" -> {Whole(0), Whole(999), Whole(1234567)}
      [] col = "error_rate" -> {Whole(0), Millionths(14), Millionths(26)}

StmtRows(col) ==
    { [proxy |-> p, test_type |-> "smoke", users |-> u] @@ (col :> v) :
        p \in StmtProxies, u \in UsersLabels, v \in StmtValues(col) }

StmtCatalogs ==
    UNION { UNION { [1..n -> StmtRows(col)] : n \in 1..MaxStmtRows } : col \in StmtColumns }

InitStmt ==
    /\ LoadIdle
    /\ AggIdle
    /\ WinIdle
    /\ TsIdle
    /\ order = <<>>
    /\ stmt_df \in StmtCatalogs
    /\ comparative_statements = <<>>
    /\ cross_proxy_statements = <<>>
    /\ spc = "start"
    /\ returned = <<>>
    /\ TokenIdle

\* a generator that sets users_numeric on the caller's frame and sorts it
InputAfter_InPlace(df) ==
    LET sorted == SortedByUsers(df, Positions(Len(df)))
    IN  [k \in 1..Len(df) |->
            df[sorted[k]] @@ [users_numeric |-> UsersNumeric(df[sorted[k]].users)]]

\* the caller's frame after the two generators: the group frame of line 16
\* is a .copy(), and boolean indexing, dropna and groupby build new frames
InputAfter(df) == df

\* analyse.main calling run_analysis (the catalog is not empty there)
RunAnalysis ==
    /\ spc = "start"
    /\ comparative_statements' = GenerateComparativeStatements(stmt_df)
    /\ cross_proxy_statements' = GenerateCrossProxyStatements(stmt_df)
    /\ returned' = Append(returned, [comparative |-> comparative_statements',
                                     cross |-> cross_proxy_statements'])
    /\ spc' = "done"
    /\ stmt_df' = InputAfter(stmt_df)
    /\ UNCHANGED <<loaderVars, aggVars, winVars, tsVars, order, tokenVars>>

NextStmt == RunAnalysis

SpecStmt == InitStmt /\ [][NextStmt]_vars

(***************************************************************************)
(* Properties of the statement generators.                                 *)
(***************************************************************************)
\* the metric names of the table whose column is in the catalog
TrackedNames ==
    { COMPARATIVE_METRICS_MAP[k][1] :
        k \in { j \in 1..Len(COMPARATIVE_METRICS_MAP) :
                  COMPARATIVE_METRICS_MAP[j][2] \in Columns(stmt_df) } }

ColumnOf(metric_name) ==
    COMPARATIVE_METRICS_MAP[CHOOSE k \in 1..Len(COMPARATIVE_METRICS_MAP) :
                               COMPARATIVE_METRICS_MAP[k][1] = metric_name][2]

\* a latency, time, duration, failure, error, CPU or memory style name
LowerIsBetterStyle(metric_name) ==
    \E word \in {"Latency", "TTFB", "Time", "Duration", "Failure", "Fail", "Error",
                 "CPU", "Memory"} : Contains(metric_name, word)

\* C13: both generators class a tracked metric as "lower is better" when
\* its name is of the latency, time, duration, failure, error, CPU or
\* memory kind and as "higher is better" otherwise.
C13_PolarityByStyle ==
    spc = "done" =>
        \A metric_name \in TrackedNames :
            /\ AnyKeywordIn(metric_name, IntraKeywords) <=> LowerIsBetterStyle(metric_name)
            /\ AnyKeywordIn(metric_name, CrossKeywords) <=> LowerIsBetterStyle(metric_name)

\* the lines of a list of statements written for a metric
LinesOf(statements, metric_name) ==
    { statements[k] :
        k \in { j \in 1..Len(statements) :
                  SubSeq(statements[j], 1, Len(metric_name) + 3) = "\t" \o metric_name \o ": " } }

\* the rows of a proxy that hold a value in a column
GroupOf(proxy, col) ==
    { p \in 1..Len(stmt_df) : stmt_df[p].proxy = proxy /\ ~IsNa(Cell(stmt_df[p], col)) }

\* the pairs of rows next to each other in the order of load of their
\* group, in the groups where no two rows have the same load
AdjacentPairs(col) ==
    { pr \in (1..Len(stmt_df)) \X (1..Len(stmt_df)) :
        LET group == GroupOf(stmt_df[pr[1]].proxy, col)
            load(row) == UsersNumeric(stmt_df[row].users)
        IN  /\ pr[1] \in group /\ pr[2] \in group
            /\ \A p \in group, q \in group : p # q => stmt_df[p].users # stmt_df[q].users
            /\ load(pr[1]) < load(pr[2])
            /\ ~\E p \in group : load(pr[1]) < load(p) /\ load(p) < load(pr[2]) }

\* the segment of a line that opens with the given words, up to the "; "
\* or the "." that ends it
Segment(line, opening) ==
    LET starts == { i \in 1..(Len(line) - Len(opening) + 1) :
                      SubSeq(line, i, i + Len(opening) - 1) = opening }
        first == CHOOSE x \in starts : \A y \in starts : x <= y
        ends == { j \in first..Len(line) :
                    j = Len(line) \/ SubSeq(line, j, j + 1) = "; " }
        last == CHOOSE x \in ends : \A y \in ends : x <= y
    IN  IF starts = {} THEN "" ELSE SubSeq(line, first, last - 1)

\* the segments written for a pair of rows of a group
SegmentsOf(statements, metric_name, pr) ==
    { Segment(line, "from " \o stmt_df[pr[1]].users \o " to " \o stmt_df[pr[2]].users \o ": ") :
        line \in { l \in LinesOf(statements, metric_name) :
                     \E k \in 1..Len(statements) :
                        /\ statements[k] = "\nComparisons for " \o stmt_df[pr[1]].proxy
                                           \o " (Smoke test) as User Load Increases"
                        /\ \E m \in (k + 1)..Len(statements) : statements[m] = l } } \ {""}

\* C14: in the intra-proxy statements an increase from a positive value is
\* "improving" for Average RPS and "worsening" for a metric whose name
\* holds "Latency" (as for the duration metrics of the table), whatever
\* else the catalog holds.
C14_PolarityDeterministic ==
    spc = "done" =>
        \A metric_name \in TrackedNames :
            \A pr \in AdjacentPairs(ColumnOf(metric_name)) :
                LET old == stmt_df[pr[1]][ColumnOf(metric_name)]
                    new == stmt_df[pr[2]][ColumnOf(metric_name)]
                    segments == SegmentsOf(comparative_statements, metric_name, pr)
                IN  (old.num > 0 /\ LessThan(old, new)) =>
                        /\ segments # {}
                        /\ metric_name = "Average RPS" =>
                              \A seg \in segments : Contains(seg, "% increase (improving, from ")
                        /\ metric_name = "P95 Duration (ms)" =>
                              \A seg \in segments : Contains(seg, "% increase (worsening, from ")
                        /\ Trend("P95 Latency (ms)", PctChange(old, new)) = "worsening"
                        /\ Trend("Average RPS", PctChange(old, new)) = "improving"

\* two runs of one proxy whose Average RPS rises from 100 to 150
C14_Witness ==
    /\ spc = "done"
    /\ Len(stmt_df) = 2
    /\ stmt_df[1].proxy = "Go" /\ stmt_df[2].proxy = "Go"
    /\ <<1, 2>> \in AdjacentPairs("rps")
    /\ stmt_df[1].rps = Whole(100) /\ stmt_df[2].rps = Whole(150)
    /\ Len(comparative_statements) = 3
    /\ Contains(comparative_statements[3], "increase (improving")

\* (new - old) / old * 100 as one exact fraction
ExactPct(old, new) ==
    Frac((new.num * old.den - old.num * new.den) * 100, old.num * new.den)

\* the segment the rule asks for: |pct_change|, the direction by the sign
\* of the change, the trend by the polarity of the name, "stable" at 0%
ExpectedSegment(metric_name, pr) ==
    LET old == stmt_df[pr[1]][ColumnOf(metric_name)]
        new == stmt_df[pr[2]][ColumnOf(metric_name)]
        pct == ExactPct(old, new)
        direction == IF pct.num < 0 THEN "decrease" ELSE "increase"
        rising == IF LowerIsBetterStyle(metric_name) THEN "worsening" ELSE "improving"
        falling == IF LowerIsBetterStyle(metric_name) THEN "improving" ELSE "worsening"
        trend == IF pct.num > 0 THEN rising ELSE IF pct.num < 0 THEN falling ELSE "stable"
    IN  "from " \o stmt_df[pr[1]].users \o " to " \o stmt_df[pr[2]].users \o ": "
        \o Fixed5(AbsVal(pct)) \o "% " \o direction \o " (" \o trend \o ", from "
        \o ValStr(metric_name, old) \o " to " \o ValStr(metric_name, new) \o ")"

\* the pairs of a tracked metric compared from a positive old value
PositivePairs(metric_name) ==
    { pr \in AdjacentPairs(ColumnOf(metric_name)) :
        stmt_df[pr[1]][ColumnOf(metric_name)].num > 0 }

\* C15: for every compared pair with old > 0 the intra-proxy segment states
\* |(new - old) / old * 100|, "increase" or "decrease" by the sign of the
\* change, and the trend by the polarity of the metric, "stable" at 0%
\* (the numbers in the form the line is written in).
C15_PctChangeSegment ==
    spc = "done" =>
        \A metric_name \in TrackedNames :
            \A pr \in PositivePairs(metric_name) :
                /\ SegmentsOf(comparative_statements, metric_name, pr) # {}
                /\ \A seg \in SegmentsOf(comparative_statements, metric_name, pr) :
                      seg = Replace(ExpectedSegment(metric_name, pr), "0.00000", "0.0")

\* the lines written for a metric under the heading of a load level in the
\* cross-proxy statements
CrossLinesOf(statements, metric_name, users) ==
    { statements[m] :
        m \in { n \in 1..Len(statements) :
                  /\ SubSeq(statements[n], 1, Len(metric_name) + 3) = "\t" \o metric_name \o ": "
                  /\ \E k \in 1..(n - 1) :
                        /\ statements[k] = "\nComparison for Smoke Test @ " \o users \o " Users"
                        /\ \A h \in (k + 1)..n : SubSeq(statements[h], 1, 1) = "\t" } }

\* the pairs of rows of one load level that both hold a value in a column,
\* in the order of the catalog
CrossPairs(column) ==
    { pr \in (1..Len(stmt_df)) \X (1..Len(stmt_df)) :
        /\ pr[1] < pr[2]
        /\ stmt_df[pr[1]].users = stmt_df[pr[2]].users
        /\ ~IsNa(Cell(stmt_df[pr[1]], column))
        /\ ~IsNa(Cell(stmt_df[pr[2]], column)) }

\* a line holds a part: the part stands between ": " or "; " and "; " or "."
HoldsPart(line, part) ==
    /\ Contains(line, ": " \o part) \/ Contains(line, "; " \o part)
    /\ Contains(line, part \o "; ") \/ Contains(line, part \o ".")

\* C16: a pair whose old value is <= 0 is written by the intra-proxy
\* generator only as "changed from X to Y", and a pair with a value <= 0 is
\* written by the cross-proxy generator only as "A (valX) vs B (valY)";
\* neither holds a percentage, so nothing is divided by a value <= 0.
C16_NoDivisionByNonPositive ==
    spc = "done" =>
        \A metric_name \in TrackedNames :
            LET column == ColumnOf(metric_name)
                shown(k) == ValStr(metric_name, stmt_df[k][column])
            IN  /\ \A pr \in AdjacentPairs(column) \ PositivePairs(metric_name) :
                      /\ SegmentsOf(comparative_statements, metric_name, pr) # {}
                      /\ \A seg \in SegmentsOf(comparative_statements, metric_name, pr) :
                            /\ seg = Replace("from " \o stmt_df[pr[1]].users \o " to "
                                                \o stmt_df[pr[2]].users \o ": changed from "
                                                \o shown(pr[1]) \o " to " \o shown(pr[2]),
                                              "0.00000", "0.0")
                            /\ ~Contains(seg, "%")
                /\ \A pr \in CrossPairs(column) :
                      (stmt_df[pr[1]][column].num <= 0 \/ stmt_df[pr[2]][column].num <= 0) =>
                          \E line \in CrossLinesOf(cross_proxy_statements, metric_name,
                                                    stmt_df[pr[1]].users) :
                              /\ HoldsPart(line,
                                     Replace(stmt_df[pr[1]].proxy \o " (" \o shown(pr[1]) \o ") vs "
                                               \o stmt_df[pr[2]].proxy \o " (" \o shown(pr[2]) \o ")",
                                             "0.00000", "0.0"))
                              /\ Len(stmt_df) = 2 =>
                                    (~Contains(line, "%") /\ ~Contains(line, "better"))

\* two runs of one proxy whose Average RPS starts from 0
C16_Witness ==
    /\ spc = "done"
    /\ Len(stmt_df) = 2
    /\ <<1, 2>> \in AdjacentPairs("rps")
    /\ stmt_df[1].rps = Whole(0) /\ stmt_df[2].rps = Whole(100)
    /\ comparative_statements[3] = "\tAverage RPS: from 1k to 5k: changed from 0.0 to 100.0."

\* the first place of a string where a text starts, 0 when there is none
Find(str, text) ==
    LET places == { k \in 1..(Len(str) - Len(text) + 1) :
                      SubSeq(str, k, k + Len(text) - 1) = text }
    IN  IF places = {} THEN 0 ELSE CHOOSE k \in places : \A h \in places : k <= h

\* the text of a string between the first "left" and the first "right"
\* after it
Between(str, left, right) ==
    LET rest == SubSeq(str, Find(str, left) + Len(left), Len(str))
    IN  SubSeq(rest, 1, Find(rest, right) - 1)

RECURSIVE Pow10(_)
Pow10(k) == IF k = 0 THEN 1 ELSE 10 * Pow10(k - 1)

\* the number a printed value reads as
Parsed(str) ==
    LET plain == Replace(str, ",", "")
        dot == Find(plain, ".")
        decimals == SubSeq(plain, dot + 1, Len(plain))
    IN  IF dot = 0 THEN Whole(ToInt(plain))
        ELSE Frac(ToInt(SubSeq(plain, 1, dot - 1)) * Pow10(Len(decimals)) + ToInt(decimals),
                  Pow10(Len(decimals)))

\* the percentage, the old value and the new value printed in a segment
PrintedPct(seg) == Between(seg, ": ", "% ")
PrintedOld(seg) == Between(seg, ", from ", " to ")
PrintedNew(seg) == Between(seg, ", from " \o PrintedOld(seg) \o " to ", ")")

\* C17: in every intra-proxy segment with old > 0 the percentage computed
\* again as (new - old) / old * 100 from the old and new values printed in
\* the segment is, to 5 decimal places, the percentage printed there.
C17_PrintedValuesReproducePct ==
    spc = "done" =>
        \A metric_name \in TrackedNames :
            \A pr \in PositivePairs(metric_name) :
                \A seg \in SegmentsOf(comparative_statements, metric_name, pr) :
                    /\ Parsed(PrintedOld(seg)).num > 0
                    /\ Replace(Fixed5(AbsVal(ExactPct(Parsed(PrintedOld(seg)),
                                                      Parsed(PrintedNew(seg))))),
                               "0.00000", "0.0") = PrintedPct(seg)

\* the pairs of rows of two proxies at one load level, both values > 0
WinnerPairs(metric_name) ==
    { pr \in CrossPairs(ColumnOf(metric_name)) :
        /\ stmt_df[pr[1]].proxy # stmt_df[pr[2]].proxy
        /\ stmt_df[pr[1]][ColumnOf(metric_name)].num > 0
        /\ stmt_df[pr[2]][ColumnOf(metric_name)].num > 0 }

\* C18: for two proxies with positive values of a metric, the statement
\* written when A precedes B is the one written when B precedes A: the
\* same winner, the same loser and the same percentage.
C18_WinnerAntisymmetric ==
    spc = "done" =>
        \A metric_name \in TrackedNames :
            \A pr \in WinnerPairs(metric_name) :
                LET column == ColumnOf(metric_name)
                    swapped == CrossPart(metric_name,
                                         stmt_df[pr[2]].proxy, stmt_df[pr[1]].proxy,
                                         stmt_df[pr[2]][column], stmt_df[pr[1]][column])
                IN  \E line \in CrossLinesOf(cross_proxy_statements, metric_name,
                                              stmt_df[pr[1]].users) :
                        HoldsPart(line, Replace(swapped, "0.00000", "0.0"))

\* the part that names a winner with the percentage taken against a base
WinnerStatement(metric_name, winner, loser, base) ==
    LET column == ColumnOf(metric_name)
        gap == Minus(stmt_df[winner][column], stmt_df[loser][column])
        pct == Frac(Abs(gap.num) * 100 * stmt_df[base][column].den,
                    gap.den * stmt_df[base][column].num)
    IN  Replace(stmt_df[winner].proxy \o " was " \o Fixed5(pct) \o "% better than "
                  \o stmt_df[loser].proxy \o " ("
                  \o ValStr(metric_name, stmt_df[winner][column]) \o " vs "
                  \o ValStr(metric_name, stmt_df[loser][column]) \o ")",
                "0.00000", "0.0")

\* the row of a pair with the smaller value (the first one at a tie)
SmallerOf(metric_name, pr) ==
    IF LessThan(stmt_df[pr[2]][ColumnOf(metric_name)], stmt_df[pr[1]][ColumnOf(metric_name)])
    THEN pr[2] ELSE pr[1]

\* C19 as stated: in every winner statement the percentage is
\* |winner_value - loser_value| / loser_value * 100, for "lower is better"
\* metrics as for "higher is better" ones.
C19_LoserBaseline ==
    spc = "done" =>
        \A metric_name \in TrackedNames :
            \A pr \in WinnerPairs(metric_name) :
                \E line \in CrossLinesOf(cross_proxy_statements, metric_name,
                                          stmt_df[pr[1]].users) :
                    \/ HoldsPart(line, WinnerStatement(metric_name, pr[1], pr[2], pr[2]))
                    \/ HoldsPart(line, WinnerStatement(metric_name, pr[2], pr[1], pr[1]))

\* C19 amended: in every winner statement the percentage is
\* |winner_value - loser_value| / min(winner_value, loser_value) * 100: the
\* base is the loser's value for "higher is better" metrics and the
\* winner's value for "lower is better" metrics.
C19_SmallerBaseline ==
    spc = "done" =>
        \A metric_name \in TrackedNames :
            \A pr \in WinnerPairs(metric_name) :
                \E line \in CrossLinesOf(cross_proxy_statements, metric_name,
                                          stmt_df[pr[1]].users) :
                    \/ HoldsPart(line, WinnerStatement(metric_name, pr[1], pr[2],
                                                       SmallerOf(metric_name, pr)))
                    \/ HoldsPart(line, WinnerStatement(metric_name, pr[2], pr[1],
                                                       SmallerOf(metric_name, pr)))

\* Go at 120 and Java at 90 on P95 Duration (ms): Java wins by 33.33333%
C19_Witness ==
    /\ spc = "done"
    /\ Len(stmt_df) = 2
    /\ <<1, 2>> \in WinnerPairs("P95 Duration (ms)")
    /\ stmt_df[1].duration_p95 = Whole(120) /\ stmt_df[2].duration_p95 = Whole(90)
    /\ cross_proxy_statements[3]
         = "\tP95 Duration (ms): " \o stmt_df[2].proxy \o " was 33.33333% better than "
           \o stmt_df[1].proxy \o " (90.0 vs 120.0)."

\* a value as the rule renders it: thousands separators and no decimals for
\* a count metric, 5 decimals otherwise, "0.0" for exactly "0.00000"
Rendered(metric_name, val) ==
    IF IsCount(metric_name) THEN Comma0(val)
    ELSE IF Fixed5(val) = "0.00000" THEN "0.0" ELSE Fixed5(val)

\* C20: in every line of either generator a value of a count metric is
\* written with thousands separators and no decimals, and a value of any
\* other metric with exactly 5 decimals, but for a value formatted exactly
\* "0.00000", which is written "0.0".
C20_ValueRendering ==
    spc = "done" =>
        \A metric_name \in TrackedNames :
            LET column == ColumnOf(metric_name)
                shown(k) == Rendered(metric_name, stmt_df[k][column])
            IN  /\ \A pr \in AdjacentPairs(column) :
                      \A seg \in SegmentsOf(comparative_statements, metric_name, pr) :
                          \/ Contains(seg \o ";", ", from " \o shown(pr[1]) \o " to "
                                                    \o shown(pr[2]) \o ");")
                          \/ Contains(seg \o ";", ": changed from " \o shown(pr[1]) \o " to "
                                                    \o shown(pr[2]) \o ";")
                /\ \A pr \in CrossPairs(column) :
                      \E line \in CrossLinesOf(cross_proxy_statements, metric_name,
                                                stmt_df[pr[1]].users) :
                          \/ Contains(line, " (" \o shown(pr[1]) \o " vs " \o shown(pr[2]) \o ")")
                          \/ Contains(line, " (" \o shown(pr[2]) \o " vs " \o shown(pr[1]) \o ")")
                          \/ Contains(line, " (" \o shown(pr[1]) \o ") vs "
                                             \o stmt_df[pr[2]].proxy \o " (" \o shown(pr[2]) \o ")")

\* the catalog of two Go smoke runs at 1k and 5k users, rps 100 and 150
IsRpsScenario ==
    /\ Len(stmt_df) = 2
    /\ stmt_df[1] = [proxy |-> "Go", test_type |-> "smoke", users |-> "1k", rps |-> Whole(100)]
    /\ stmt_df[2] = [proxy |-> "Go", test_type |-> "smoke", users |-> "5k", rps |-> Whole(150)]

\* C21: for two Go smoke runs at 1k and 5k users with rps 100 and 150 the
\* intra-proxy generator writes "Average RPS: from 1k to 5k: 50.00000%
\* increase (improving, from 100.00000 to 150.00000)."
C21_RpsScenario ==
    (spc = "done" /\ IsRpsScenario) =>
        \E k \in 1..Len(comparative_statements) :
            Contains(comparative_statements[k],
                     "Average RPS: from 1k to 5k: 50.00000% increase "
                       \o "(improving, from 100.00000 to 150.00000).")

\* the catalog of a Go and a Java smoke run at 1k users with duration_p95
\* 120 and 90, in either order
IsDurationScenario ==
    /\ Len(stmt_df) = 2
    /\ { stmt_df[1], stmt_df[2] }
         = { [proxy |-> "Go", test_type |-> "smoke", users |-> "1k", duration_p95 |-> Whole(120)],
             [proxy |-> "Java", test_type |-> "smoke", users |-> "1k", duration_p95 |-> Whole(90)] }

\* C22: for Go at 120 and Java at 90 on duration_p95 at 1k users the
\* cross-proxy statement of "P95 Duration (ms)" names Java the winner over
\* Go by 33.33333%, whichever row comes first.
C22_DurationScenario ==
    (spc = "done" /\ IsDurationScenario) =>
        /\ Len(cross_proxy_statements) = 3
        /\ Contains(cross_proxy_statements[3],
                    "\tP95 Duration (ms): Java was 33.33333% better than Go (")
        /\ ~Contains(cross_proxy_statements[3], "Go was")

\* the scenario with the Java row first
C22_Witness ==
    /\ spc = "done"
    /\ IsDurationScenario
    /\ stmt_df[1].proxy = "Java"
    /\ Contains(cross_proxy_statements[3], "Java was 33.33333% better than Go")

(***************************************************************************)
(* The two generators called again and again on one frame.                 *)
(***************************************************************************)
MaxCalls == 2     \* calls of the pair of generators on the frame

\* lines 153-154: the two generators called on the caller's frame
CallGenerators ==
    /\ Len(returned) < MaxCalls
    /\ comparative_statements' = GenerateComparativeStatements(stmt_df)
    /\ cross_proxy_statements' = GenerateCrossProxyStatements(stmt_df)
    /\ returned' = Append(returned, [comparative |-> comparative_statements',
                                     cross |-> cross_proxy_statements'])
    /\ spc' = "done"
    /\ stmt_df' = InputAfter(stmt_df)
    /\ UNCHANGED <<loaderVars, aggVars, winVars, tsVars, order, tokenVars>>

NextPure == CallGenerators

SpecPure == InitStmt /\ [][NextPure]_vars

MaxOrderRows == 3     \* rows of the catalog handed to run_analysis

OrderRows ==
    { [proxy |-> p, test_type |-> "smoke", users |-> u, rps |-> v] :
        p \in StmtProxies, u \in UsersLabels, v \in {NaNFrac, Whole(100), Whole(150)} }

OrderCatalogs == UNION { [1..n -> OrderRows] : n \in 1..MaxOrderRows }

InitOrder ==
    /\ LoadIdle
    /\ AggIdle
    /\ WinIdle
    /\ TsIdle
    /\ order = <<>>
    /\ stmt_df \in OrderCatalogs
    /\ comparative_statements = <<>>
    /\ cross_proxy_statements = <<>>
    /\ spc = "start"
    /\ returned = <<>>
    /\ TokenIdle

NextOrder == RunAnalysis

SpecOrder == InitOrder /\ [][NextOrder]_vars

\* the pieces of a string between the occurrences of a separator
RECURSIVE Split(_, _)
Split(str, sep) ==
    IF Find(str, sep) = 0 THEN <<str>>
    ELSE <<SubSeq(str, 1, Find(str, sep) - 1)>>
         \o Split(SubSeq(str, Find(str, sep) + Len(sep), Len(str)), sep)

\* a statement line, as against a title or a heading
IsLine(statement) == SubSeq(statement, 1, 1) = "\t"

\* the segments of a statement line "\t{metric_name}: {segment}; ... ."
SegmentsIn(line) ==
    Split(SubSeq(line, Find(line, ": ") + 2, Len(line) - 1), "; ")

\* the load a users label stands for
LoadOf(label) == ToInt(SubSeq(label, 1, Len(label) - 1))

\* the labels X and Y of a segment "from X to Y: ..."
FromLabel(seg) == Between(seg, "from ", " to ")
ToLabel(seg) == Between(seg, " to ", ": ")

\* the heading of a proxy in the intra-proxy statements
IntraHeading(proxy) ==
    "\nComparisons for " \o proxy \o " (Smoke test) as User Load Increases"

\* the rows of a proxy
MembersOf(proxy) == { k \in 1..Len(stmt_df) : stmt_df[k].proxy = proxy }

\* C24: in every intra-proxy line the segments follow each other by
\* ascending numeric load ("1k" < "5k" < "10k") and each segment "from X to
\* Y" has numeric(X) <= numeric(Y); a (test_type, proxy) group of fewer
\* than 2 members has no heading and no statement.
C24_LoadOrder ==
    spc = "done" =>
        /\ \A k \in 1..Len(comparative_statements) :
              IsLine(comparative_statements[k]) =>
                  LET segs == SegmentsIn(comparative_statements[k])
                  IN  /\ \A n \in 1..Len(segs) :
                            LoadOf(FromLabel(segs[n])) <= LoadOf(ToLabel(segs[n]))
                      /\ \A n \in 1..(Len(segs) - 1) :
                            /\ LoadOf(FromLabel(segs[n])) <= LoadOf(FromLabel(segs[n + 1]))
                            /\ LoadOf(ToLabel(segs[n])) <= LoadOf(FromLabel(segs[n + 1]))
        /\ \A proxy \in StmtProxies :
              Cardinality(MembersOf(proxy)) < 2 =>
                  \A k \in 1..Len(comparative_statements) :
                      comparative_statements[k] # IntraHeading(proxy)
        /\ \A k \in 2..Len(comparative_statements) :
              \/ \E proxy \in StmtProxies : comparative_statements[k] = IntraHeading(proxy)
              \/ k > 2 /\ IsLine(comparative_statements[k])

\* three runs of one proxy given as 10k, 1k, 5k and written as 1k, 5k, 10k
C24_Witness ==
    /\ spc = "done"
    /\ Len(stmt_df) = 3
    /\ stmt_df[1].users = "10k" /\ stmt_df[2].users = "1k" /\ stmt_df[3].users = "5k"
    /\ Len(comparative_statements) = 3
    /\ Len(SegmentsIn(comparative_statements[3])) = 2
    /\ FromLabel(SegmentsIn(comparative_statements[3])[1]) = "1k"
    /\ ToLabel(SegmentsIn(comparative_statements[3])[2]) = "10k"

\* the members of a proxy's group whose load lies strictly between two
\* loads
MembersBetween(proxy, low, high) ==
    { k \in MembersOf(proxy) :
        low < LoadOf(stmt_df[k].users) /\ LoadOf(stmt_df[k].users) < high }

\* the proxy whose heading stands above a statement
ProxyAbove(statements, k) ==
    CHOOSE proxy \in StmtProxies :
        \E h \in 1..k :
            /\ statements[h] = IntraHeading(proxy)
            /\ \A n \in (h + 1)..k : IsLine(statements[n])

\* C25: every intra-proxy segment compares two members next to each other
\* in the load-sorted member list of the (test_type, proxy) group, both
\* with a value of the metric; no member of the group lies between them.
C25_AdjacentMembers ==
    spc = "done" =>
        \A k \in 1..Len(comparative_statements) :
            IsLine(comparative_statements[k]) =>
                \A n \in 1..Len(SegmentsIn(comparative_statements[k])) :
                    LET seg == SegmentsIn(comparative_statements[k])[n]
                        group == MembersOf(ProxyAbove(comparative_statements, k))
                    IN  /\ \E a \in group : /\ stmt_df[a].users = FromLabel(seg)
                                             /\ ~IsNa(stmt_df[a].rps)
                        /\ \E b \in group : /\ stmt_df[b].users = ToLabel(seg)
                                             /\ ~IsNa(stmt_df[b].rps)
                        /\ MembersBetween(ProxyAbove(comparative_statements, k),
                                          LoadOf(FromLabel(seg)), LoadOf(ToLabel(seg))) = {}

\* the heading of a load level in the cross-proxy statements
CrossHeading(users) == "\nComparison for Smoke Test @ " \o users \o " Users"

\* the rows of a load level, and those of them that hold an rps value, in
\* the order of the catalog
RECURSIVE InOrder(_)
InOrder(rows) ==
    IF rows = {} THEN <<>>
    ELSE LET least == CHOOSE k \in rows : \A h \in rows : k <= h
         IN  <<least>> \o InOrder(rows \ {least})

LevelRows(users) == { k \in 1..Len(stmt_df) : stmt_df[k].users = users }
LevelMembers(users) == InOrder({ k \in LevelRows(users) : ~IsNa(stmt_df[k].rps) })

\* the pairs (i, j), i < j, of n members in lexicographic order
LexPairs(n) ==
    LET all == { pr \in (1..n) \X (1..n) : pr[1] < pr[2] }
        rank(pr) == Cardinality({ other \in all :
                        other[1] < pr[1] \/ (other[1] = pr[1] /\ other[2] < pr[2]) }) + 1
    IN  [k \in 1..Cardinality(all) |-> CHOOSE pr \in all : rank(pr) = k]

\* the segment of the pair of members i, j of a load level
PairSegment(users, pr) ==
    LET first == stmt_df[LevelMembers(users)[pr[1]]]
        second == stmt_df[LevelMembers(users)[pr[2]]]
    IN  Replace(CrossPart("Average RPS", first.proxy, second.proxy, first.rps, second.rps),
                "0.00000", "0.0")

\* C26: for every (test_type, users) group with n >= 2 members holding a
\* value, the cross-proxy line has n(n-1)/2 segments, one per pair (i, j)
\* with i < j, in lexicographic order of (i, j) over the members in catalog
\* order; a group of fewer than 2 members has no heading and no statement.
C26_PairwiseSegments ==
    spc = "done" =>
        \A users \in UsersLabels :
            LET n == Len(LevelMembers(users))
                lines == CrossLinesOf(cross_proxy_statements, "Average RPS", users)
            IN  /\ n >= 2 =>
                      /\ Cardinality(lines) = 1
                      /\ \A line \in lines :
                            /\ Len(SegmentsIn(line)) = (n * (n - 1)) \div 2
                            /\ \A k \in 1..Len(SegmentsIn(line)) :
                                  SegmentsIn(line)[k] = PairSegment(users, LexPairs(n)[k])
                /\ n < 2 => lines = {}
                /\ Cardinality(LevelRows(users)) < 2 =>
                      \A k \in 1..Len(cross_proxy_statements) :
                          cross_proxy_statements[k] # CrossHeading(users)

\* three runs at one load level, Java between two Go runs: three segments
C26_Witness ==
    /\ spc = "done"
    /\ Len(stmt_df) = 3
    /\ Len(LevelMembers("1k")) = 3
    /\ stmt_df[1].proxy = "Go" /\ stmt_df[2].proxy = "Java" /\ stmt_df[3].proxy = "Go"
    /\ stmt_df[1].rps = Whole(100) /\ stmt_df[2].rps = Whole(150) /\ stmt_df[3].rps = Whole(150)
    /\ Len(SegmentsIn(cross_proxy_statements[3])) = 3

\* the component name of the proxy of a row of the enriched catalog
OwnComponent(i) ==
    CASE enriched[i].proxy = "Go" -> "go-proxy"
      [] enriched[i].proxy = "Java" -> "java-proxy"
      [] enriched[i].proxy = "Node" -> "node-proxy"

\* the rows of the aligned series of row i that belong to its own proxy
\* component and to the during window
OwnDuringRows(i) ==
    { k \in 1..Len(enriched[i].docker_stats_df) :
        /\ enriched[i].docker_stats_df[k].name = OwnComponent(i)
        /\ enriched[i].docker_stats_df[k].time >= enriched[i].start_time
        /\ enriched[i].docker_stats_df[k].time <= enriched[i].end_time }

RECURSIVE SumOver(_, _, _)
SumOver(frame, rows, column) ==
    IF rows = {} THEN 0
    ELSE LET v == frame[CHOOSE r \in rows : TRUE][column]
             same == { k \in rows : frame[k][column] = v }
         IN  v * Cardinality(same) + SumOver(frame, rows \ same, column)

\* the mean of the values a column holds in a set of rows
MeanOver(frame, rows, column) ==
    LET holding == { k \in rows : frame[k][column] # NaN }
    IN  Frac(SumOver(frame, holding, column), Cardinality(holding))

\* the resource query of row i succeeded and the aligned series holds a
\* row of its own proxy component in the during window
OwnProxySampled(i) ==
    /\ "docker_stats_df" \in DOMAIN enriched[i]
    /\ "proxy" \in DOMAIN enriched[i]
    /\ OwnDuringRows(i) # {}

\* C27: for a run whose resource query succeeds and whose own proxy
\* component has a sample in the during window, avg_cpu is the aggregate
\* "{proxy}-proxy_cpu_during_avg" and avg_mem_mib is
\* "{proxy}-proxy_mem_during_avg", both the mean over the rows of the own
\* component in the during window and over no other row of the series.
C27_TopLevelAverages ==
    apc = "done" =>
        \A i \in 1..Len(enriched) :
            OwnProxySampled(i) =>
                /\ enriched[i].avg_cpu = enriched[i][OwnComponent(i) \o "_cpu_during_avg"]
                /\ enriched[i].avg_mem_mib = enriched[i][OwnComponent(i) \o "_mem_during_avg"]
                /\ enriched[i].avg_cpu
                     = MeanOver(enriched[i].docker_stats_df, OwnDuringRows(i), "cpu_perc_float")
                /\ enriched[i].avg_mem_mib
                     = MeanOver(enriched[i].docker_stats_df, OwnDuringRows(i), "mem_usage_mib")

\* a Go run with go-proxy sampled before and at the start of the run, next
\* to the rows of the windows before and after it
C27_Witness ==
    /\ apc = "done"
    /\ \E i \in 1..Len(enriched) :
          /\ OwnProxySampled(i)
          /\ enriched[i].proxy = "Go"
          /\ enriched[i].avg_cpu = [num |-> 7, den |-> 1]
          /\ enriched[i]["go-proxy_cpu_before_avg"] = [num |-> 5, den |-> 1]
          /\ Cardinality(OwnDuringRows(i)) < Len(enriched[i].docker_stats_df)

\* the values sampled for a component
SampledCpu(name) ==
    { p.v : p \in { q \in dstore.cpu : q.tags = TagsOf(name) } }
SampledMemMib(name) ==
    { p.v \div MiB : p \in { q \in dstore.mem : q.tags = TagsOf(name) } }

\* C28: every value the aligned series of a run holds in a row of
\* component C, filled or not, is a value sampled for component C itself,
\* never one sampled for another component.
C28_FillWithinComponent ==
    apc = "done" =>
        \A i \in 1..Len(enriched) :
            "docker_stats_df" \in DOMAIN enriched[i] =>
                \A k \in 1..Len(enriched[i].docker_stats_df) :
                    LET r == enriched[i].docker_stats_df[k]
                    IN  /\ r.cpu_perc_float # NaN => r.cpu_perc_float \in SampledCpu(r.name)
                        /\ r.mem_usage_mib # NaN => r.mem_usage_mib \in SampledMemMib(r.name)

\* the entry the pass computes for a row from the row's own window and
\* proxy
OwnEntry(i) ==
    HandleRowError(RowOutcome(summary_df[i], dstore, i \in dfaults)).stats

\* C29: the pass appends one entry per row: the enriched catalog has the
\* rows of the input in their order, each row keeps the values of its
\* fields, and what is attached to a row is computed from the row's own
\* start_time, end_time and proxy, whichever rows succeed or fail.
C29_OneEntryPerRow ==
    apc = "done" =>
        /\ Len(enriched) = Len(summary_df)
        /\ \A i \in 1..Len(enriched) :
              /\ \A f \in DOMAIN summary_df[i] :
                    f \in DOMAIN enriched[i] /\ enriched[i][f] = summary_df[i][f]
              /\ Connected(dstore) =>
                    /\ DOMAIN enriched[i] = DOMAIN summary_df[i] \cup DOMAIN OwnEntry(i)
                    /\ \A f \in DOMAIN OwnEntry(i) : enriched[i][f] = OwnEntry(i)[f]
                    /\ \A k \in 1..Len(enriched[i].docker_stats_df) :
                          /\ enriched[i].docker_stats_df[k].time >= summary_df[i].start_time - 60
                          /\ enriched[i].docker_stats_df[k].time <= summary_df[i].end_time + 60

\* two runs, the first failing and the second enriched from its own window
C29_Witness ==
    /\ apc = "done"
    /\ Len(enriched) = 2
    /\ 1 \in dfaults
    /\ Connected(dstore)
    /\ enriched[1].docker_stats_df = <<>>
    /\ enriched[2].docker_stats_df # <<>>
    /\ "avg_cpu" \in DOMAIN enriched[2]

\* ---------------------------------------------------------------------------
\* The target server's master token: server(), reread_token_periodically and
\* handle_auth of target-server/python/server.py, and generate_new_token.py,
\* which rewrites master_token.txt while the server runs.
\* ---------------------------------------------------------------------------

MaxRequests == 2
MaxWrites == 2

Whitespace == {" ", "\n", "\t"}

\* str.strip()
Strip(str) ==
    LET keep == { k \in 1..Len(str) : SubSeq(str, k, k) \notin Whitespace }
    IN  IF keep = {} THEN ""
        ELSE SubSeq(str, CHOOSE k \in keep : \A h \in keep : k <= h,
                         CHOOSE k \in keep : \A h \in keep : k >= h)

\* secrets.token_urlsafe(24): never empty, no whitespace
Tokens == {"tokenA", "tokenB"}

\* what master_token.txt may hold when the server is started
TokenFiles ==
    {[exists |-> FALSE, content |-> ""]}
        \cup { [exists |-> TRUE, content |-> c] : c \in {"", "\n", "tokenA", "tokenA\n", " tokenB\n"} }

\* self.headers.get('X-Proxy-Token'): None when the header is missing
Headers ==
    {[present |-> FALSE, value |-> ""]}
        \cup { [present |-> TRUE, value |-> v] : v \in {"", "tokenA", "tokenB", "other"} }

\* received_token == MASTER_TOKEN: None equals no string
TokenEquals(header, token) == header.present /\ header.value = token

\* a reread that updates whatever it read
ShouldUpdate_Always(token) == TRUE

\* if new_token:
ShouldUpdate(token) == token # ""

InitToken ==
    /\ LoadIdle
    /\ AggIdle
    /\ WinIdle
    /\ TsIdle
    /\ order = <<>>
    /\ StmtIdle
    /\ master_token_txt \in TokenFiles
    /\ MASTER_TOKEN = ""
    /\ TOKEN_LOCK = "free"
    /\ main_pc = "start"
    /\ reread_pc = "idle"
    /\ new_token = ""
    /\ handler_pc = "idle"
    /\ received_token = [present |-> FALSE, value |-> ""]
    /\ is_valid = FALSE
    /\ requests = <<>>
    /\ writer_pc = "idle"
    /\ writes = 0

otherVars == <<loaderVars, aggVars, winVars, tsVars, order, stmtVars>>

\* server(): the initial read under the lock, the refusal of an empty token,
\* the start of the reread thread and of the HTTP server
ServerStartup ==
    /\ main_pc = "start"
    /\ TOKEN_LOCK = "free"
    /\ IF ~master_token_txt.exists
       THEN /\ main_pc' = "stopped"
            /\ UNCHANGED <<MASTER_TOKEN, reread_pc>>
       ELSE /\ MASTER_TOKEN' = Strip(master_token_txt.content)
            /\ IF MASTER_TOKEN' = ""
               THEN main_pc' = "stopped" /\ UNCHANGED reread_pc
               ELSE main_pc' = "serving" /\ reread_pc' = "sleep"
    /\ UNCHANGED <<master_token_txt, TOKEN_LOCK, new_token, handler_pc, received_token,
                   is_valid, requests, writer_pc, writes, otherVars>>

\* reread_token_periodically: the sleep, the read of the file, and the skips
\* on a missing file and on an empty one
RereadFile ==
    /\ main_pc = "serving"
    /\ reread_pc = "sleep"
    /\ IF ~master_token_txt.exists
       THEN UNCHANGED <<new_token, reread_pc>>
       ELSE /\ new_token' = Strip(master_token_txt.content)
            /\ reread_pc' = IF ShouldUpdate(new_token') THEN "acquire" ELSE "sleep"
    /\ UNCHANGED <<master_token_txt, MASTER_TOKEN, TOKEN_LOCK, main_pc, handler_pc,
                   received_token, is_valid, requests, writer_pc, writes, otherVars>>

\* reread_token_periodically: with TOKEN_LOCK
RereadAcquire ==
    /\ reread_pc = "acquire"
    /\ TOKEN_LOCK = "free"
    /\ TOKEN_LOCK' = "reread"
    /\ reread_pc' = "update"
    /\ UNCHANGED <<master_token_txt, MASTER_TOKEN, main_pc, new_token, handler_pc,
                   received_token, is_valid, requests, writer_pc, writes, otherVars>>

\* reread_token_periodically: the update under the lock, and its release
RereadUpdate ==
    /\ reread_pc = "update"
    /\ MASTER_TOKEN' = IF new_token # MASTER_TOKEN THEN new_token ELSE MASTER_TOKEN
    /\ TOKEN_LOCK' = "free"
    /\ reread_pc' = "sleep"
    /\ UNCHANGED <<master_token_txt, main_pc, new_token, handler_pc, received_token,
                   is_valid, requests, writer_pc, writes, otherVars>>

\* do_GET, do_GET_stream: a GET arrives; handle_auth reads its header
ReceiveGet ==
    /\ main_pc = "serving"
    /\ handler_pc = "idle"
    /\ Len(requests) < MaxRequests
    /\ \E header \in Headers : received_token' = header
    /\ handler_pc' = "acquire"
    /\ UNCHANGED <<master_token_txt, MASTER_TOKEN, TOKEN_LOCK, main_pc, reread_pc, new_token,
                   is_valid, requests, writer_pc, writes, otherVars>>

\* handle_auth: with TOKEN_LOCK
HandleAuthAcquire ==
    /\ handler_pc = "acquire"
    /\ TOKEN_LOCK = "free"
    /\ TOKEN_LOCK' = "handler"
    /\ handler_pc' = "compare"
    /\ UNCHANGED <<master_token_txt, MASTER_TOKEN, main_pc, reread_pc, new_token,
                   received_token, is_valid, requests, writer_pc, writes, otherVars>>

\* handle_auth: the comparison under the lock, and its release
HandleAuthCompare ==
    /\ handler_pc = "compare"
    /\ is_valid' = TokenEquals(received_token, MASTER_TOKEN)
    /\ requests' = Append(requests, [header |-> received_token, token |-> MASTER_TOKEN, status |-> 0])
    /\ TOKEN_LOCK' = "free"
    /\ handler_pc' = "respond"
    /\ UNCHANGED <<master_token_txt, MASTER_TOKEN, main_pc, reread_pc, new_token,
                   received_token, writer_pc, writes, otherVars>>

\* handle_auth, do_GET: send_error(403) and return, or serve the request
HandleAuthRespond ==
    /\ handler_pc = "respond"
    /\ requests' = [requests EXCEPT ![Len(requests)].status = IF is_valid THEN 200 ELSE 403]
    /\ handler_pc' = "idle"
    /\ UNCHANGED <<master_token_txt, MASTER_TOKEN, TOKEN_LOCK, main_pc, reread_pc, new_token,
                   received_token, is_valid, writer_pc, writes, otherVars>>

\* generate_new_token: open(..., 'w') truncates the file
GenerateOpen ==
    /\ writer_pc = "idle"
    /\ writes < MaxWrites
    /\ master_token_txt' = [exists |-> TRUE, content |-> ""]
    /\ writer_pc' = "opened"
    /\ UNCHANGED <<MASTER_TOKEN, TOKEN_LOCK, main_pc, reread_pc, new_token, handler_pc,
                   received_token, is_valid, requests, writes, otherVars>>

\* generate_new_token: f.write(secrets.token_urlsafe(24)) and the close
GenerateWrite ==
    /\ writer_pc = "opened"
    /\ \E token \in Tokens : master_token_txt' = [exists |-> TRUE, content |-> token]
    /\ writer_pc' = "idle"
    /\ writes' = writes + 1
    /\ UNCHANGED <<MASTER_TOKEN, TOKEN_LOCK, main_pc, reread_pc, new_token, handler_pc,
                   received_token, is_valid, requests, otherVars>>

\* the file is removed while the server runs: the FileNotFoundError that
\* reread_token_periodically provides for
RemoveTokenFile ==
    /\ writer_pc = "idle"
    /\ writes < MaxWrites
    /\ master_token_txt.exists
    /\ master_token_txt' = [exists |-> FALSE, content |-> ""]
    /\ writes' = writes + 1
    /\ UNCHANGED <<MASTER_TOKEN, TOKEN_LOCK, main_pc, reread_pc, new_token, handler_pc,
                   received_token, is_valid, requests, writer_pc, otherVars>>

NextToken ==
    \/ ServerStartup
    \/ RereadFile
    \/ RereadAcquire
    \/ RereadUpdate
    \/ ReceiveGet
    \/ HandleAuthAcquire
    \/ HandleAuthCompare
    \/ HandleAuthRespond
    \/ GenerateOpen
    \/ GenerateWrite
    \/ RemoveTokenFile

SpecToken == InitToken /\ [][NextToken]_vars

\* C30: once the server has started, the in-memory master token is never
\* empty, whatever the interleaving of requests, rereads and rewrites of the
\* file; and every GET answered whose X-Proxy-Token header is missing, empty
\* or different from the token it was compared with got 403 and was not served.
C30_TokenNeverEmpty ==
    /\ main_pc = "serving" => MASTER_TOKEN # ""
    /\ \A k \in 1..Len(requests) :
          LET r == requests[k]
          IN  /\ r.token # ""
              /\ (r.status # 0 /\ (~r.header.present \/ r.header.value = "" \/ r.header.value # r.token))
                    => r.status = 403

\* the token was replaced by a reread between two GETs, a later reread found
\* the file empty and skipped it, and the GET with a missing or empty header
\* was refused
C30_Witness ==
    /\ main_pc = "serving"
    /\ reread_pc = "sleep"
    /\ new_token = ""
    /\ Len(requests) = 2
    /\ requests[1].status = 200
    /\ requests[2].token # requests[1].token
    /\ (~requests[2].header.present \/ requests[2].header.value = "")
    /\ requests[2].status = 403

================================================================
